---- MODULE Spec2Model ----
(***************************************************************************)
(* OTProtocolCC: the CC1 hub/relay frame codec (CC1Alert,                  *)
(* CC1PollAndCommand, CC1PollResponse) and its CRC7_5B checksum.           *)
(*                                                                         *)
(* Bytes are naturals in 0..255.  A buffer is a sequence of bytes; the C   *)
(* offset i is element i+1 of the sequence (see At).                       *)
(***************************************************************************)
EXTENDS Integers, Sequences, FiniteSets, TLC

(***************************************************************************)
(* Fixed-width integer arithmetic.                                         *)
(***************************************************************************)
U8(x) == x % 256

RECURSIVE BitAnd(_, _)
BitAnd(a, b) ==
    IF a = 0 \/ b = 0 THEN 0
    ELSE (a % 2) * (b % 2) + 2 * BitAnd(a \div 2, b \div 2)

RECURSIVE BitOr(_, _)
BitOr(a, b) ==
    IF a = 0 THEN b
    ELSE IF b = 0 THEN a
    ELSE (IF (a % 2) + (b % 2) > 0 THEN 1 ELSE 0) + 2 * BitOr(a \div 2, b \div 2)

RECURSIVE BitXor(_, _)
BitXor(a, b) ==
    IF a = 0 THEN b
    ELSE IF b = 0 THEN a
    ELSE (((a % 2) + (b % 2)) % 2) + 2 * BitXor(a \div 2, b \div 2)

\* 0 != (x & mask) for a mask of one bit.
TestBit(x, mask) == (x \div mask) % 2 = 1

Shl(a, n) == a * (2 ^ n)
Shr(a, n) == a \div (2 ^ n)

\* Arduino's constrain(amt, low, high).
constrain(amt, low, high) ==
    IF amt < low THEN low ELSE IF amt > high THEN high ELSE amt

\* buf[i] for a C offset i.
At(b, i) == b[i + 1]

\* b with buf[i] = v executed.
Put(b, i, v) == [b EXCEPT ![i + 1] = v]

(***************************************************************************)
(* Frame types (OTRadioLink::FrameType_V0p2_FS20).                         *)
(***************************************************************************)
FTp2_CC1Alert == 33
FTp2_CC1PollAndCmd == 63
FTp2_CC1PollResponse == 42

(***************************************************************************)
(* CRC7_5B, one byte at a time: polynomial 0x37 (normal form), the         *)
(* register kept to 7 bits.                                                *)
(***************************************************************************)
crc7_5B_update_nz_ALT == 128

\* The loop of crc7_5B_update, for(i = 0x80; i != 0; i >>= 1), from mask i on.
crc7_5B_bits[crc \in 0..255, datum \in 0..255, i \in 0..128] ==
    IF i = 0 THEN crc
    ELSE LET top == TestBit(crc, 64)
             bit == IF TestBit(datum, i) THEN ~top ELSE top
             sh  == U8(crc * 2)
         IN  crc7_5B_bits[IF bit THEN BitXor(sh, 55) ELSE sh, datum, i \div 2]

crc7_5B_update(crc, datum) == BitAnd(crc7_5B_bits[crc, datum, 128], 127)

\* The loop of computeSimpleCRC, for(i = 1; i < len; ++i), from index i on.
crcFold[crc \in 0..255, b \in Seq(0..255), i \in 0..7] ==
    IF i >= 7 THEN crc
    ELSE crcFold[crc7_5B_update(crc, At(b, i)), b, i + 1]

\* Fault: the bytes are folded with exclusive-or alone, a longitudinal parity.
computeSimpleCRC_xor(b, buflen) ==
    LET len == 7 IN
    IF buflen < len THEN 0
    ELSE LET crc0 == At(b, 0) IN
         IF 0 = crc0 THEN 0
         ELSE LET crc == BitAnd(BitXor(crc0, BitXor(At(b, 1), BitXor(At(b, 2),
                            BitXor(At(b, 3), BitXor(At(b, 4), BitXor(At(b, 5),
                            At(b, 6))))))), 127) IN
              IF 0 # crc THEN crc ELSE crc7_5B_update_nz_ALT

\* Fault: a zero CRC is returned as it is.
computeSimpleCRC_rawzero(b, buflen) ==
    LET len == 7 IN
    IF buflen < len THEN 0
    ELSE LET crc0 == At(b, 0) IN
         IF 0 = crc0 THEN 0
         ELSE crcFold[crc0, b, 1]

\* Fault: the loop starts at i = 0, so the type byte is folded in as well.
computeSimpleCRC_fold0(b, buflen) ==
    LET len == 7 IN
    IF buflen < len THEN 0
    ELSE LET crc0 == At(b, 0) IN
         IF 0 = crc0 THEN 0
         ELSE LET crc == crcFold[crc0, b, 0] IN
              IF 0 # crc THEN crc ELSE crc7_5B_update_nz_ALT

\* CC1Base::computeSimpleCRC(buf, buflen).
computeSimpleCRC(b, buflen) ==
    LET len == 7 IN
    IF buflen < len THEN 0
    ELSE LET crc0 == At(b, 0) IN
         IF 0 = crc0 THEN 0
         ELSE LET crc == crcFold[crc0, b, 1] IN
              IF 0 # crc THEN crc ELSE crc7_5B_update_nz_ALT

(***************************************************************************)
(* CC1Base.                                                                *)
(***************************************************************************)
\* Fault: forceInvalid() clears the wrong house-code byte.
forceInvalid_hc2(o) == [o EXCEPT !.hc2 = 255]

forceInvalid(o) == [o EXCEPT !.hc1 = 255]

\* Fault: the room for the CRC is not asked for.
encodeSimpleArgsSane_noCRC(null, buflen, includeCRC) == (~null) /\ (buflen >= 7)

encodeSimpleArgsSane(null, buflen, includeCRC) ==
    (~null) /\ (buflen >= (IF includeCRC THEN 8 ELSE 7))

\* Fault: the room for the CRC is not asked for.
decodeSimpleArgsSane_noCRC(null, buflen, includeCRC) == (~null) /\ (buflen >= 7)

decodeSimpleArgsSane(null, buflen, includeCRC) ==
    (~null) /\ (buflen >= (IF includeCRC THEN 8 ELSE 7))

\* Fault: only the first house-code byte is tested.
houseCodeIsValid_hc1(o) == (255 # o.hc1)

houseCodeIsValid(o) == (255 # o.hc1) /\ (255 # o.hc2)

isValid(o) == houseCodeIsValid(o)

getHC1(o) == o.hc1
getHC2(o) == o.hc2

(***************************************************************************)
(* CC1Alert.                                                               *)
(***************************************************************************)
\* CC1Alert(): hc1 = 0xff, hc2 left indeterminate (u is what it holds).
CC1Alert_default(u) == [kind |-> "Alert", hc1 |-> 255, hc2 |-> u]

CC1Alert_make(hc1, hc2) == [kind |-> "Alert", hc1 |-> hc1, hc2 |-> hc2]

\* Fault: hc2 written at offsets 1 and 2.
CC1Alert_encodeSimple_hc2hc2(o, null, b, buflen, includeCRC) ==
    IF ~encodeSimpleArgsSane(null, buflen, includeCRC) THEN [buf |-> b, ret |-> 0]
    ELSE LET b0 == Put(b, 0, FTp2_CC1Alert)
             b1 == Put(b0, 1, o.hc2)
             b2 == Put(b1, 2, o.hc2)
             b3 == Put(b2, 3, 1)
             b4 == Put(b3, 4, 1)
             b5 == Put(b4, 5, 1)
             b6 == Put(b5, 6, 1)
         IN  IF ~includeCRC THEN [buf |-> b6, ret |-> 7]
             ELSE [buf |-> Put(b6, 7, computeSimpleCRC(b6, buflen)), ret |-> 8]

\* Fault: the checksum is computed with the length of the body less one.
CC1Alert_encodeSimple_crclen(o, null, b, buflen, includeCRC) ==
    IF ~encodeSimpleArgsSane(null, buflen, includeCRC) THEN [buf |-> b, ret |-> 0]
    ELSE LET b0 == Put(b, 0, FTp2_CC1Alert)
             b1 == Put(b0, 1, o.hc1)
             b2 == Put(b1, 2, o.hc2)
             b3 == Put(b2, 3, 1)
             b4 == Put(b3, 4, 1)
             b5 == Put(b4, 5, 1)
             b6 == Put(b5, 6, 1)
         IN  IF ~includeCRC THEN [buf |-> b6, ret |-> 7]
             ELSE [buf |-> Put(b6, 7, computeSimpleCRC(b6, 6)), ret |-> 8]

CC1Alert_encodeSimple(o, null, b, buflen, includeCRC) ==
    IF ~encodeSimpleArgsSane(null, buflen, includeCRC) THEN [buf |-> b, ret |-> 0]
    ELSE LET b0 == Put(b, 0, FTp2_CC1Alert)
             b1 == Put(b0, 1, o.hc1)
             b2 == Put(b1, 2, o.hc2)
             b3 == Put(b2, 3, 1)
             b4 == Put(b3, 4, 1)
             b5 == Put(b4, 5, 1)
             b6 == Put(b5, 6, 1)
         IN  IF ~includeCRC THEN [buf |-> b6, ret |-> 7]
             ELSE [buf |-> Put(b6, 7, computeSimpleCRC(b6, buflen)), ret |-> 8]

\* Fault: hc2 read from offset 1.
CC1Alert_decodeSimple_hc2hc2(o, null, b, buflen) ==
    LET o0 == forceInvalid(o) IN
    IF ~decodeSimpleArgsSane(null, buflen, TRUE) THEN [obj |-> o0, ret |-> 0]
    ELSE IF FTp2_CC1Alert # At(b, 0) THEN [obj |-> o0, ret |-> 0]
    ELSE IF 1 # At(b, 3) THEN [obj |-> o0, ret |-> 0]
    ELSE IF computeSimpleCRC(b, buflen) # At(b, 7) THEN [obj |-> o0, ret |-> 0]
    ELSE [obj |-> [o0 EXCEPT !.hc1 = At(b, 1), !.hc2 = At(b, 1)], ret |-> 8]

\* Fault: the frame type is not checked.
CC1Alert_decodeSimple_notype(o, null, b, buflen) ==
    LET o0 == forceInvalid(o) IN
    IF ~decodeSimpleArgsSane(null, buflen, TRUE) THEN [obj |-> o0, ret |-> 0]
    ELSE IF 1 # At(b, 3) THEN [obj |-> o0, ret |-> 0]
    ELSE IF computeSimpleCRC(b, buflen) # At(b, 7) THEN [obj |-> o0, ret |-> 0]
    ELSE [obj |-> [o0 EXCEPT !.hc1 = At(b, 1), !.hc2 = At(b, 2)], ret |-> 8]

CC1Alert_decodeSimple(o, null, b, buflen) ==
    LET o0 == forceInvalid(o) IN
    IF ~decodeSimpleArgsSane(null, buflen, TRUE) THEN [obj |-> o0, ret |-> 0]
    ELSE IF FTp2_CC1Alert # At(b, 0) THEN [obj |-> o0, ret |-> 0]
    ELSE IF 1 # At(b, 3) THEN [obj |-> o0, ret |-> 0]
    ELSE IF computeSimpleCRC(b, buflen) # At(b, 7) THEN [obj |-> o0, ret |-> 0]
    ELSE [obj |-> [o0 EXCEPT !.hc1 = At(b, 1), !.hc2 = At(b, 2)], ret |-> 8]

(***************************************************************************)
(* CC1PollAndCommand.                                                      *)
(***************************************************************************)
\* CC1PollAndCommand(): hc1 = 0xff, every other member indeterminate.
CC1PollAndCommand_default(u) ==
    [kind |-> "PollAndCommand", hc1 |-> 255, hc2 |-> u.hc2,
     rp |-> u.rp, lc |-> u.lc, lt |-> u.lt, lf |-> u.lf]

\* Fault: lc is clamped to [0,3] rather than masked.
CC1PollAndCommand_make_lcclamp(hc1, hc2, rp, lc, lt, lf) ==
    [kind |-> "PollAndCommand", hc1 |-> hc1, hc2 |-> hc2,
     rp |-> constrain(rp, 0, 100),
     lc |-> constrain(lc, 0, 3),
     lt |-> constrain(lt, 1, 15),
     lf |-> constrain(lf, 1, 3)]

CC1PollAndCommand_make(hc1, hc2, rp, lc, lt, lf) ==
    [kind |-> "PollAndCommand", hc1 |-> hc1, hc2 |-> hc2,
     rp |-> constrain(rp, 0, 100),
     lc |-> BitAnd(lc, 3),
     lt |-> constrain(lt, 1, 15),
     lf |-> constrain(lf, 1, 3)]

getRP(o) == o.rp
getLC(o) == o.lc
getLT(o) == o.lt
getLF(o) == o.lf

\* Fault: rp written without the + 1.
CC1PollAndCommand_encodeSimple_rp(o, null, b, buflen, includeCRC) ==
    IF ~encodeSimpleArgsSane(null, buflen, includeCRC) THEN [buf |-> b, ret |-> 0]
    ELSE LET b0 == Put(b, 0, FTp2_CC1PollAndCmd)
             b1 == Put(b0, 1, o.hc1)
             b2 == Put(b1, 2, o.hc2)
             b3 == Put(b2, 3, U8(o.rp))
             b4 == Put(b3, 4, U8(BitOr(BitOr(Shl(o.lf, 6), BitAnd(Shl(o.lt, 2), 60)),
                                       BitAnd(o.lc, 3))))
             b5 == Put(b4, 5, 1)
             b6 == Put(b5, 6, 1)
         IN  IF ~includeCRC THEN [buf |-> b6, ret |-> 7]
             ELSE [buf |-> Put(b6, 7, computeSimpleCRC(b6, buflen)), ret |-> 8]

\* Fault: the checksum byte is written even when it is not asked for.
CC1PollAndCommand_encodeSimple_crcalways(o, null, b, buflen, includeCRC) ==
    IF ~encodeSimpleArgsSane(null, buflen, includeCRC) THEN [buf |-> b, ret |-> 0]
    ELSE LET b0 == Put(b, 0, FTp2_CC1PollAndCmd)
             b1 == Put(b0, 1, o.hc1)
             b2 == Put(b1, 2, o.hc2)
             b3 == Put(b2, 3, U8(o.rp + 1))
             b4 == Put(b3, 4, U8(BitOr(BitOr(Shl(o.lf, 6), BitAnd(Shl(o.lt, 2), 60)),
                                       BitAnd(o.lc, 3))))
             b5 == Put(b4, 5, 1)
             b6 == Put(b5, 6, 1)
             b7 == Put(b6, 7, computeSimpleCRC(b6, 7))
         IN  IF ~includeCRC THEN [buf |-> b7, ret |-> 7]
             ELSE [buf |-> b7, ret |-> 8]

CC1PollAndCommand_encodeSimple(o, null, b, buflen, includeCRC) ==
    IF ~encodeSimpleArgsSane(null, buflen, includeCRC) THEN [buf |-> b, ret |-> 0]
    ELSE LET b0 == Put(b, 0, FTp2_CC1PollAndCmd)
             b1 == Put(b0, 1, o.hc1)
             b2 == Put(b1, 2, o.hc2)
             b3 == Put(b2, 3, U8(o.rp + 1))
             b4 == Put(b3, 4, U8(BitOr(BitOr(Shl(o.lf, 6), BitAnd(Shl(o.lt, 2), 60)),
                                       BitAnd(o.lc, 3))))
             b5 == Put(b4, 5, 1)
             b6 == Put(b5, 6, 1)
         IN  IF ~includeCRC THEN [buf |-> b6, ret |-> 7]
             ELSE [buf |-> Put(b6, 7, computeSimpleCRC(b6, buflen)), ret |-> 8]

\* Fault: the second extension byte is tested instead of the first.
CC1PollAndCommand_decodeSimple_ext2(o, null, b, buflen) ==
    LET o0 == forceInvalid(o) IN
    IF ~decodeSimpleArgsSane(null, buflen, TRUE) THEN [obj |-> o0, ret |-> 0]
    ELSE IF FTp2_CC1PollAndCmd # At(b, 0) THEN [obj |-> o0, ret |-> 0]
    ELSE IF 1 # At(b, 6) THEN [obj |-> o0, ret |-> 0]
    ELSE LET _rp == U8(At(b, 3) - 1) IN
    IF _rp >= 101 THEN [obj |-> o0, ret |-> 0]
    ELSE LET o1 == [o0 EXCEPT !.rp = _rp]
             o2 == [o1 EXCEPT !.lc = BitAnd(At(b, 4), 3)]
             o3 == [o2 EXCEPT !.lt = BitAnd(Shr(At(b, 4), 2), 15)] IN
    IF 0 = o3.lt THEN [obj |-> o3, ret |-> 0]
    ELSE LET o4 == [o3 EXCEPT !.lf = BitAnd(Shr(At(b, 4), 6), 3)] IN
    IF 0 = o4.lf THEN [obj |-> o4, ret |-> 0]
    ELSE IF computeSimpleCRC(b, buflen) # At(b, 7) THEN [obj |-> o4, ret |-> 0]
    ELSE [obj |-> [o4 EXCEPT !.hc1 = At(b, 1), !.hc2 = At(b, 2)], ret |-> 8]

\* Fault: the range test of rp is off by one (_rp > 101).
CC1PollAndCommand_decodeSimple_rp102(o, null, b, buflen) ==
    LET o0 == forceInvalid(o) IN
    IF ~decodeSimpleArgsSane(null, buflen, TRUE) THEN [obj |-> o0, ret |-> 0]
    ELSE IF FTp2_CC1PollAndCmd # At(b, 0) THEN [obj |-> o0, ret |-> 0]
    ELSE IF 1 # At(b, 5) THEN [obj |-> o0, ret |-> 0]
    ELSE LET _rp == U8(At(b, 3) - 1) IN
    IF _rp > 101 THEN [obj |-> o0, ret |-> 0]
    ELSE LET o1 == [o0 EXCEPT !.rp = _rp]
             o2 == [o1 EXCEPT !.lc = BitAnd(At(b, 4), 3)]
             o3 == [o2 EXCEPT !.lt = BitAnd(Shr(At(b, 4), 2), 15)] IN
    IF 0 = o3.lt THEN [obj |-> o3, ret |-> 0]
    ELSE LET o4 == [o3 EXCEPT !.lf = BitAnd(Shr(At(b, 4), 6), 3)] IN
    IF 0 = o4.lf THEN [obj |-> o4, ret |-> 0]
    ELSE IF computeSimpleCRC(b, buflen) # At(b, 7) THEN [obj |-> o4, ret |-> 0]
    ELSE [obj |-> [o4 EXCEPT !.hc1 = At(b, 1), !.hc2 = At(b, 2)], ret |-> 8]

\* Fault: the house code is extracted first.
CC1PollAndCommand_decodeSimple_hcfirst(o, null, b, buflen) ==
    LET o0 == forceInvalid(o) IN
    IF ~decodeSimpleArgsSane(null, buflen, TRUE) THEN [obj |-> o0, ret |-> 0]
    ELSE IF FTp2_CC1PollAndCmd # At(b, 0) THEN [obj |-> o0, ret |-> 0]
    ELSE LET oh == [o0 EXCEPT !.hc1 = At(b, 1), !.hc2 = At(b, 2)] IN
    IF 1 # At(b, 5) THEN [obj |-> oh, ret |-> 0]
    ELSE LET _rp == U8(At(b, 3) - 1) IN
    IF _rp >= 101 THEN [obj |-> oh, ret |-> 0]
    ELSE LET o1 == [oh EXCEPT !.rp = _rp]
             o2 == [o1 EXCEPT !.lc = BitAnd(At(b, 4), 3)]
             o3 == [o2 EXCEPT !.lt = BitAnd(Shr(At(b, 4), 2), 15)] IN
    IF 0 = o3.lt THEN [obj |-> o3, ret |-> 0]
    ELSE LET o4 == [o3 EXCEPT !.lf = BitAnd(Shr(At(b, 4), 6), 3)] IN
    IF 0 = o4.lf THEN [obj |-> o4, ret |-> 0]
    ELSE IF computeSimpleCRC(b, buflen) # At(b, 7) THEN [obj |-> o4, ret |-> 0]
    ELSE [obj |-> o4, ret |-> 8]

CC1PollAndCommand_decodeSimple(o, null, b, buflen) ==
    LET o0 == forceInvalid(o) IN
    IF ~decodeSimpleArgsSane(null, buflen, TRUE) THEN [obj |-> o0, ret |-> 0]
    ELSE IF FTp2_CC1PollAndCmd # At(b, 0) THEN [obj |-> o0, ret |-> 0]
    ELSE IF 1 # At(b, 5) THEN [obj |-> o0, ret |-> 0]
    ELSE LET _rp == U8(At(b, 3) - 1) IN
    IF _rp >= 101 THEN [obj |-> o0, ret |-> 0]
    ELSE LET o1 == [o0 EXCEPT !.rp = _rp]
             o2 == [o1 EXCEPT !.lc = BitAnd(At(b, 4), 3)]
             o3 == [o2 EXCEPT !.lt = BitAnd(Shr(At(b, 4), 2), 15)] IN
    IF 0 = o3.lt THEN [obj |-> o3, ret |-> 0]
    ELSE LET o4 == [o3 EXCEPT !.lf = BitAnd(Shr(At(b, 4), 6), 3)] IN
    IF 0 = o4.lf THEN [obj |-> o4, ret |-> 0]
    ELSE IF computeSimpleCRC(b, buflen) # At(b, 7) THEN [obj |-> o4, ret |-> 0]
    ELSE [obj |-> [o4 EXCEPT !.hc1 = At(b, 1), !.hc2 = At(b, 2)], ret |-> 8]

(***************************************************************************)
(* CC1PollResponse.  tr is a uint16_t member; getTR() returns uint8_t.     *)
(***************************************************************************)
\* CC1PollResponse(): hc1 = 0xff, every other member indeterminate.
CC1PollResponse_default(u) ==
    [kind |-> "PollResponse", hc1 |-> 255, hc2 |-> u.hc2,
     rh |-> u.rh, tp |-> u.tp, tr |-> u.tr, al |-> u.al,
     w |-> u.w, s |-> u.s, sy |-> u.sy]

\* Fault: the switch and window arguments stored in each other's member.
CC1PollResponse_make_sw(hc1, hc2, rh, tp, tr, al, s, w, sy) ==
    [kind |-> "PollResponse", hc1 |-> hc1, hc2 |-> hc2,
     rh |-> constrain(rh, 0, 50),
     tp |-> constrain(tp, 0, 199),
     tr |-> constrain(tr, 0, 199),
     al |-> constrain(al, 1, 62),
     w |-> s, s |-> w, sy |-> sy]

CC1PollResponse_make(hc1, hc2, rh, tp, tr, al, s, w, sy) ==
    [kind |-> "PollResponse", hc1 |-> hc1, hc2 |-> hc2,
     rh |-> constrain(rh, 0, 50),
     tp |-> constrain(tp, 0, 199),
     tr |-> constrain(tr, 0, 199),
     al |-> constrain(al, 1, 62),
     w |-> w, s |-> s, sy |-> sy]

getRH(o) == o.rh
getTP(o) == o.tp
getTR(o) == U8(o.tr)
getAL(o) == o.al
getW(o) == o.w
getS(o) == o.s
getSY(o) == o.sy

\* Fault: the window and switch bits exchanged.
CC1PollResponse_encodeSimple_ws(o, null, b, buflen, includeCRC) ==
    IF ~encodeSimpleArgsSane(null, buflen, includeCRC) THEN [buf |-> b, ret |-> 0]
    ELSE LET b0  == Put(b, 0, FTp2_CC1PollResponse)
             b1  == Put(b0, 1, o.hc1)
             b2  == Put(b1, 2, o.hc2)
             b3  == Put(b2, 3, U8(o.rh + 1))
             b3w == IF o.w THEN Put(b3, 3, BitOr(At(b3, 3), 64)) ELSE b3
             b3s == IF o.s THEN Put(b3w, 3, BitOr(At(b3w, 3), 128)) ELSE b3w
             b4  == Put(b3s, 4, U8(o.tp + 1))
             b5  == Put(b4, 5, U8(o.tr + 1))
             b6  == Put(b5, 6, U8(Shl(o.al, 1)))
             b6y == IF o.sy THEN Put(b6, 6, BitOr(At(b6, 6), 128)) ELSE b6
         IN  IF ~includeCRC THEN [buf |-> b6y, ret |-> 7]
             ELSE [buf |-> Put(b6y, 7, computeSimpleCRC(b6y, buflen)), ret |-> 8]

\* Fault: tr written without the + 1.
CC1PollResponse_encodeSimple_tr(o, null, b, buflen, includeCRC) ==
    IF ~encodeSimpleArgsSane(null, buflen, includeCRC) THEN [buf |-> b, ret |-> 0]
    ELSE LET b0  == Put(b, 0, FTp2_CC1PollResponse)
             b1  == Put(b0, 1, o.hc1)
             b2  == Put(b1, 2, o.hc2)
             b3  == Put(b2, 3, U8(o.rh + 1))
             b3w == IF o.w THEN Put(b3, 3, BitOr(At(b3, 3), 128)) ELSE b3
             b3s == IF o.s THEN Put(b3w, 3, BitOr(At(b3w, 3), 64)) ELSE b3w
             b4  == Put(b3s, 4, U8(o.tp + 1))
             b5  == Put(b4, 5, U8(o.tr))
             b6  == Put(b5, 6, U8(Shl(o.al, 1)))
             b6y == IF o.sy THEN Put(b6, 6, BitOr(At(b6, 6), 128)) ELSE b6
         IN  IF ~includeCRC THEN [buf |-> b6y, ret |-> 7]
             ELSE [buf |-> Put(b6y, 7, computeSimpleCRC(b6y, buflen)), ret |-> 8]

CC1PollResponse_encodeSimple(o, null, b, buflen, includeCRC) ==
    IF ~encodeSimpleArgsSane(null, buflen, includeCRC) THEN [buf |-> b, ret |-> 0]
    ELSE LET b0  == Put(b, 0, FTp2_CC1PollResponse)
             b1  == Put(b0, 1, o.hc1)
             b2  == Put(b1, 2, o.hc2)
             b3  == Put(b2, 3, U8(o.rh + 1))
             b3w == IF o.w THEN Put(b3, 3, BitOr(At(b3, 3), 128)) ELSE b3
             b3s == IF o.s THEN Put(b3w, 3, BitOr(At(b3w, 3), 64)) ELSE b3w
             b4  == Put(b3s, 4, U8(o.tp + 1))
             b5  == Put(b4, 5, U8(o.tr + 1))
             b6  == Put(b5, 6, U8(Shl(o.al, 1)))
             b6y == IF o.sy THEN Put(b6, 6, BitOr(At(b6, 6), 128)) ELSE b6
         IN  IF ~includeCRC THEN [buf |-> b6y, ret |-> 7]
             ELSE [buf |-> Put(b6y, 7, computeSimpleCRC(b6y, buflen)), ret |-> 8]

\* Fault: the all-ones value of al is not rejected.
CC1PollResponse_decodeSimple_al63(o, null, b, buflen) ==
    LET o0 == forceInvalid(o) IN
    IF ~decodeSimpleArgsSane(null, buflen, TRUE) THEN [obj |-> o0, ret |-> 0]
    ELSE IF FTp2_CC1PollResponse # At(b, 0) THEN [obj |-> o0, ret |-> 0]
    ELSE LET _rh == BitAnd(At(b, 3), 63) IN
    IF (0 = _rh) \/ (_rh > 51) THEN [obj |-> o0, ret |-> 0]
    ELSE LET o1 == [o0 EXCEPT !.rh = _rh - 1,
                              !.w = (0 # BitAnd(128, At(b, 3))),
                              !.s = (0 # BitAnd(64, At(b, 3)))]
             _tp == U8(At(b, 4) - 1) IN
    IF _tp >= 200 THEN [obj |-> o1, ret |-> 0]
    ELSE LET o2 == [o1 EXCEPT !.tp = _tp]
             _tr == U8(At(b, 5) - 1) IN
    IF _tr >= 200 THEN [obj |-> o2, ret |-> 0]
    ELSE LET o3 == [o2 EXCEPT !.tr = _tr]
             _al == BitAnd(Shr(At(b, 6), 1), 63) IN
    IF 0 = _al THEN [obj |-> o3, ret |-> 0]
    ELSE LET o4 == [o3 EXCEPT !.al = _al, !.sy = (0 # BitAnd(128, At(b, 6)))] IN
    IF computeSimpleCRC(b, buflen) # At(b, 7) THEN [obj |-> o4, ret |-> 0]
    ELSE [obj |-> [o4 EXCEPT !.hc1 = At(b, 1), !.hc2 = At(b, 2)], ret |-> 8]

\* Fault: the window and switch masks exchanged.
CC1PollResponse_decodeSimple_ws(o, null, b, buflen) ==
    LET o0 == forceInvalid(o) IN
    IF ~decodeSimpleArgsSane(null, buflen, TRUE) THEN [obj |-> o0, ret |-> 0]
    ELSE IF FTp2_CC1PollResponse # At(b, 0) THEN [obj |-> o0, ret |-> 0]
    ELSE LET _rh == BitAnd(At(b, 3), 63) IN
    IF (0 = _rh) \/ (_rh > 51) THEN [obj |-> o0, ret |-> 0]
    ELSE LET o1 == [o0 EXCEPT !.rh = _rh - 1,
                              !.w = (0 # BitAnd(64, At(b, 3))),
                              !.s = (0 # BitAnd(128, At(b, 3)))]
             _tp == U8(At(b, 4) - 1) IN
    IF _tp >= 200 THEN [obj |-> o1, ret |-> 0]
    ELSE LET o2 == [o1 EXCEPT !.tp = _tp]
             _tr == U8(At(b, 5) - 1) IN
    IF _tr >= 200 THEN [obj |-> o2, ret |-> 0]
    ELSE LET o3 == [o2 EXCEPT !.tr = _tr]
             _al == BitAnd(Shr(At(b, 6), 1), 63) IN
    IF (0 = _al) \/ (63 = _al) THEN [obj |-> o3, ret |-> 0]
    ELSE LET o4 == [o3 EXCEPT !.al = _al, !.sy = (0 # BitAnd(128, At(b, 6)))] IN
    IF computeSimpleCRC(b, buflen) # At(b, 7) THEN [obj |-> o4, ret |-> 0]
    ELSE [obj |-> [o4 EXCEPT !.hc1 = At(b, 1), !.hc2 = At(b, 2)], ret |-> 8]

\* Fault: the CRC is not compared.
CC1PollResponse_decodeSimple_nocrc(o, null, b, buflen) ==
    LET o0 == forceInvalid(o) IN
    IF ~decodeSimpleArgsSane(null, buflen, TRUE) THEN [obj |-> o0, ret |-> 0]
    ELSE IF FTp2_CC1PollResponse # At(b, 0) THEN [obj |-> o0, ret |-> 0]
    ELSE LET _rh == BitAnd(At(b, 3), 63) IN
    IF (0 = _rh) \/ (_rh > 51) THEN [obj |-> o0, ret |-> 0]
    ELSE LET o1 == [o0 EXCEPT !.rh = _rh - 1,
                              !.w = (0 # BitAnd(128, At(b, 3))),
                              !.s = (0 # BitAnd(64, At(b, 3)))]
             _tp == U8(At(b, 4) - 1) IN
    IF _tp >= 200 THEN [obj |-> o1, ret |-> 0]
    ELSE LET o2 == [o1 EXCEPT !.tp = _tp]
             _tr == U8(At(b, 5) - 1) IN
    IF _tr >= 200 THEN [obj |-> o2, ret |-> 0]
    ELSE LET o3 == [o2 EXCEPT !.tr = _tr]
             _al == BitAnd(Shr(At(b, 6), 1), 63) IN
    IF (0 = _al) \/ (63 = _al) THEN [obj |-> o3, ret |-> 0]
    ELSE LET o4 == [o3 EXCEPT !.al = _al, !.sy = (0 # BitAnd(128, At(b, 6)))] IN
    [obj |-> [o4 EXCEPT !.hc1 = At(b, 1), !.hc2 = At(b, 2)], ret |-> 8]

CC1PollResponse_decodeSimple(o, null, b, buflen) ==
    LET o0 == forceInvalid(o) IN
    IF ~decodeSimpleArgsSane(null, buflen, TRUE) THEN [obj |-> o0, ret |-> 0]
    ELSE IF FTp2_CC1PollResponse # At(b, 0) THEN [obj |-> o0, ret |-> 0]
    ELSE LET _rh == BitAnd(At(b, 3), 63) IN
    IF (0 = _rh) \/ (_rh > 51) THEN [obj |-> o0, ret |-> 0]
    ELSE LET o1 == [o0 EXCEPT !.rh = _rh - 1,
                              !.w = (0 # BitAnd(128, At(b, 3))),
                              !.s = (0 # BitAnd(64, At(b, 3)))]
             _tp == U8(At(b, 4) - 1) IN
    IF _tp >= 200 THEN [obj |-> o1, ret |-> 0]
    ELSE LET o2 == [o1 EXCEPT !.tp = _tp]
             _tr == U8(At(b, 5) - 1) IN
    IF _tr >= 200 THEN [obj |-> o2, ret |-> 0]
    ELSE LET o3 == [o2 EXCEPT !.tr = _tr]
             _al == BitAnd(Shr(At(b, 6), 1), 63) IN
    IF (0 = _al) \/ (63 = _al) THEN [obj |-> o3, ret |-> 0]
    ELSE LET o4 == [o3 EXCEPT !.al = _al, !.sy = (0 # BitAnd(128, At(b, 6)))] IN
    IF computeSimpleCRC(b, buflen) # At(b, 7) THEN [obj |-> o4, ret |-> 0]
    ELSE [obj |-> [o4 EXCEPT !.hc1 = At(b, 1), !.hc2 = At(b, 2)], ret |-> 8]

(***************************************************************************)
(* Virtual dispatch on the dynamic type of the instance.                   *)
(***************************************************************************)
encodeSimple(o, null, b, buflen, includeCRC) ==
    CASE o.kind = "Alert" -> CC1Alert_encodeSimple(o, null, b, buflen, includeCRC)
      [] o.kind = "PollAndCommand" -> CC1PollAndCommand_encodeSimple(o, null, b, buflen, includeCRC)
      [] o.kind = "PollResponse" -> CC1PollResponse_encodeSimple(o, null, b, buflen, includeCRC)

decodeSimple(o, null, b, buflen) ==
    CASE o.kind = "Alert" -> CC1Alert_decodeSimple(o, null, b, buflen)
      [] o.kind = "PollAndCommand" -> CC1PollAndCommand_decodeSimple(o, null, b, buflen)
      [] o.kind = "PollResponse" -> CC1PollResponse_decodeSimple(o, null, b, buflen)

(***************************************************************************)
(* The program: a caller holding one instance made by a factory (a1, as    *)
(* the const instances of the unit tests), one default-constructed         *)
(* instance of the same class to decode into (a2) and one byte buffer.     *)
(***************************************************************************)
VARIABLES
    a1,     \* the instance the factory returned
    a2,     \* the instance decoded into
    buf,    \* the caller's buffer, BufCap bytes
    call,   \* the last call made: operation, target and arguments
    ret,    \* what the last call returned
    sent,   \* the instance whose encodeSimple output the buffer still holds
    pokes   \* number of bytes of the buffer overwritten by the caller

vars == <<a1, a2, buf, call, ret, sent, pokes>>

\* Size of the caller's buffer, uint8_t buf[13] in the unit tests.
BufCap == 13
\* How many times the caller overwrites a byte of the buffer.
MaxPokes == 1

\* House codes given to the factories: valid, and invalid in either byte.
HCIn == {<<10, 21>>, <<255, 0>>, <<10, 255>>}
HCValid == {<<10, 21>>}
\* A house code for which the raw CRC of the CC1Alert frame is zero.
HCZero == {<<1, 91>>}
\* Field values given to the factories, in and out of range.
RPIn == {0, 150}
LCIn == {2, 7}
LTIn == {0, 16}
LFIn == {0, 4}
RHIn == {0, 51}
TPIn == {0, 200}
TRIn == {0, 255}
ALIn == {0, 63}
\* What an indeterminate byte / bool member of a new instance holds.
Indeterminate == {0, 255}
\* What the buffer holds before anything is written to it.
FillIn == {165}
\* Buffer lengths passed to the calls.
LenIn == {6, 7, 8}
\* (null, buflen) passed to the calls: a null pointer, or the buffer.
CallArgs == {<<TRUE, 8>>} \cup {<<FALSE, n>> : n \in LenIn}
\* Values the caller overwrites bytes with.
PokeIn == {3, 255}

NoCall(op) == [op |-> op, on |-> "", null |-> FALSE, buflen |-> 0, includeCRC |-> FALSE]

\* b followed by the fill byte f up to BufCap bytes.
Padded(b, f) == [i \in 1..BufCap |-> IF i <= Len(b) THEN b[i] ELSE f]

InitCommon ==
    /\ \E f \in FillIn : buf = [i \in 1..BufCap |-> f]
    /\ call = NoCall("make")
    /\ ret = 0
    /\ sent = [ok |-> FALSE, inst |-> a1, crc |-> FALSE]
    /\ pokes = 0

\* CC1Alert a1 = CC1Alert::make(...); CC1Alert a2;
InitAlert(HC) ==
    /\ \E hc \in HC : a1 = CC1Alert_make(hc[1], hc[2])
    /\ \E u \in Indeterminate : a2 = CC1Alert_default(u)
    /\ InitCommon

\* CC1PollAndCommand a1 = CC1PollAndCommand::make(...); CC1PollAndCommand a2;
InitPollAndCommand(HC, RP, LC, LT, LF) ==
    /\ \E hc \in HC, rp \in RP, lc \in LC, lt \in LT, lf \in LF :
          a1 = CC1PollAndCommand_make(hc[1], hc[2], rp, lc, lt, lf)
    /\ \E u \in Indeterminate :
          a2 = CC1PollAndCommand_default([hc2 |-> u, rp |-> u, lc |-> u, lt |-> u, lf |-> u])
    /\ InitCommon

\* CC1PollResponse a1 = CC1PollResponse::make(...); CC1PollResponse a2;
InitPollResponse(HC, RH, TP, TR, AL, FL) ==
    /\ \E hc \in HC, rh \in RH, tp \in TP, tr \in TR, al \in AL,
          s \in FL, w \in FL, sy \in FL :
          a1 = CC1PollResponse_make(hc[1], hc[2], rh, tp, tr, al, s, w, sy)
    /\ \E u \in Indeterminate :
          a2 = CC1PollResponse_default([hc2 |-> u, rh |-> u, tp |-> u, tr |-> u, al |-> u,
                                        w |-> (u # 0), s |-> (u # 0), sy |-> (u # 0)])
    /\ InitCommon

\* The factory inputs of the unit tests (testCC1PAC, testCC1PR) with every
\* house code, and every combination of field values with a valid house code.
Init ==
    \/ InitAlert(HCIn)
    \/ InitAlert(HCZero)
    \/ InitPollAndCommand(HCIn, {1}, {2}, {3}, {1})
    \/ InitPollAndCommand(HCValid, RPIn, LCIn, LTIn, LFIn)
    \/ InitPollResponse(HCIn, {45}, {160}, {101}, {35}, BOOLEAN)
    \/ InitPollResponse(HCValid, RHIn, TPIn, TRIn, ALIn, {FALSE})

\* Fault: encodeSimple is not const and leaves its instance forced invalid.
Encode_invalidates(on, null, buflen, includeCRC) ==
    LET o == IF on = "a1" THEN a1 ELSE a2
        r == encodeSimple(o, null, buf, buflen, includeCRC) IN
    /\ buf' = r.buf
    /\ ret' = r.ret
    /\ call' = [op |-> "encode", on |-> on, null |-> null, buflen |-> buflen,
                includeCRC |-> includeCRC]
    /\ sent' = IF r.ret = 0 THEN sent
               ELSE [ok |-> TRUE, inst |-> o, crc |-> includeCRC]
    /\ a1' = IF on = "a1" THEN forceInvalid(a1) ELSE a1
    /\ a2' = IF on = "a2" THEN forceInvalid(a2) ELSE a2
    /\ UNCHANGED pokes

\* o.encodeSimple(buf, buflen, includeCRC) on instance a1 or a2; null: buf is NULL.
Encode(on, null, buflen, includeCRC) ==
    LET o == IF on = "a1" THEN a1 ELSE a2
        r == encodeSimple(o, null, buf, buflen, includeCRC) IN
    /\ buf' = r.buf
    /\ ret' = r.ret
    /\ call' = [op |-> "encode", on |-> on, null |-> null, buflen |-> buflen,
                includeCRC |-> includeCRC]
    /\ sent' = IF r.ret = 0 THEN sent
               ELSE [ok |-> TRUE, inst |-> o, crc |-> includeCRC]
    /\ UNCHANGED <<a1, a2, pokes>>

\* a2.decodeSimple(buf, buflen); null: buf is NULL.
Decode(null, buflen) ==
    LET r == decodeSimple(a2, null, buf, buflen) IN
    /\ a2' = r.obj
    /\ ret' = r.ret
    /\ call' = [op |-> "decode", on |-> "a2", null |-> null, buflen |-> buflen,
                includeCRC |-> FALSE]
    /\ UNCHANGED <<a1, buf, sent, pokes>>

EncodeA1 == \E c \in CallArgs, includeCRC \in BOOLEAN : Encode("a1", c[1], c[2], includeCRC)
DecodeA2 == \E c \in CallArgs : Decode(c[1], c[2])

Next == EncodeA1 \/ DecodeA2

Spec == Init /\ [][Next]_vars

(***************************************************************************)
(* The same caller on an unreliable channel: every call is given the whole *)
(* buffer and asks for the checksum, as the unit tests do, and between the *)
(* calls bytes of the buffer are overwritten.                              *)
(***************************************************************************)
InitWire ==
    \/ InitAlert(HCValid)
    \/ InitPollAndCommand(HCValid, {1}, {2}, {3}, {1})
    \/ InitPollAndCommand(HCValid, {150}, {7}, {16}, {4})
    \/ InitPollResponse(HCValid, {45}, {160}, {101}, {35}, {TRUE})
    \/ InitPollResponse(HCValid, {51}, {200}, {255}, {63}, {FALSE})

\* a1.encodeSimple(buf, sizeof(buf), true)
SendA1 == Encode("a1", FALSE, BufCap, TRUE)
\* a2.encodeSimple(buf, sizeof(buf), true)
SendA2 == Encode("a2", FALSE, BufCap, TRUE)
\* a2.decodeSimple(buf, sizeof(buf))
ReceiveA2 == Decode(FALSE, BufCap)

\* The channel overwrites one byte of the frame.
Poke ==
    /\ pokes < MaxPokes
    /\ \E i \in 0..7, v \in PokeIn :
          /\ At(buf, i) # v
          /\ buf' = Put(buf, i, v)
    /\ pokes' = pokes + 1
    /\ call' = NoCall("poke")
    /\ ret' = 0
    /\ sent' = [sent EXCEPT !.ok = FALSE]
    /\ UNCHANGED <<a1, a2>>

\* A peer writes one byte of the frame and sets the checksum byte to what
\* computeSimpleCRC returns for the result.
Forge ==
    /\ pokes < MaxPokes
    /\ \E i \in 0..6, v \in PokeIn :
          /\ At(buf, i) # v
          /\ LET b == Put(buf, i, v) IN buf' = Put(b, 7, computeSimpleCRC(b, 7))
    /\ pokes' = pokes + 1
    /\ call' = NoCall("forge")
    /\ ret' = 0
    /\ sent' = [sent EXCEPT !.ok = FALSE]
    /\ UNCHANGED <<a1, a2>>

NextWire == SendA1 \/ SendA2 \/ ReceiveA2 \/ Poke \/ Forge

SpecWire == InitWire /\ [][NextWire]_vars

(***************************************************************************)
(* A caller holding instances of two different classes: a1 made by the     *)
(* factory of one class, a2 default-constructed from another class, and    *)
(* the frame that a1 encodes offered to a2.                                *)
(***************************************************************************)
\* The instances the factories return for the inputs of Init.
MadeIn ==
    {CC1Alert_make(hc[1], hc[2]) : hc \in HCIn}
    \cup {CC1PollAndCommand_make(hc[1], hc[2], 1, 2, 3, 1) : hc \in HCIn}
    \cup {CC1PollAndCommand_make(10, 21, rp, lc, lt, lf) :
              rp \in RPIn, lc \in LCIn, lt \in LTIn, lf \in LFIn}
    \cup {CC1PollResponse_make(hc[1], hc[2], 45, 160, 101, 35, TRUE, FALSE, TRUE) :
              hc \in HCIn}
    \cup {CC1PollResponse_make(10, 21, rh, tp, tr, al, FALSE, FALSE, FALSE) :
              rh \in RHIn, tp \in TPIn, tr \in TRIn, al \in ALIn}

\* The default-constructed instances of the three classes.
FreshIn ==
    {CC1Alert_default(u) : u \in Indeterminate}
    \cup {CC1PollAndCommand_default([hc2 |-> u, rp |-> u, lc |-> u, lt |-> u, lf |-> u]) :
              u \in Indeterminate}
    \cup {CC1PollResponse_default([hc2 |-> u, rh |-> u, tp |-> u, tr |-> u, al |-> u,
                                   w |-> (u # 0), s |-> (u # 0), sy |-> (u # 0)]) :
              u \in Indeterminate}

InitCross ==
    /\ a1 \in MadeIn
    /\ a2 \in FreshIn
    /\ a2.kind # a1.kind
    /\ InitCommon

NextCross == EncodeA1 \/ DecodeA2

SpecCross == InitCross /\ [][NextCross]_vars

(***************************************************************************)
(* A caller whose instances are both invalid: a1 made with 0xFF in its     *)
(* house code, a2 default-constructed; either is encoded, and the buffer   *)
(* is decoded into a2.                                                     *)
(***************************************************************************)
\* House codes with 0xFF in the first or in the second byte.
HCInvalid == {<<255, 0>>, <<10, 255>>}

InitInvalid ==
    \/ InitAlert(HCInvalid)
    \/ InitPollAndCommand(HCInvalid, {1}, {2}, {3}, {1})
    \/ InitPollResponse(HCInvalid, {45}, {160}, {101}, {35}, BOOLEAN)

EncodeA2 == \E c \in CallArgs, includeCRC \in BOOLEAN : Encode("a2", c[1], c[2], includeCRC)

NextInvalid == EncodeA1 \/ EncodeA2 \/ DecodeA2

SpecInvalid == InitInvalid /\ [][NextInvalid]_vars

(***************************************************************************)
(* The single-bit corruption test at the end of testCC1Alert, testCC1PAC   *)
(* and testCC1PR: a frame is encoded, one bit of its 8 bytes is inverted,  *)
(* and the frame is decoded again.                                         *)
(***************************************************************************)
\* How many times a bit of an encoded frame is inverted.
MaxFlips == 1

\* Valid instances: the fixtures of the unit tests, and one CC1Alert and one
\* CC1PollAndCommand whose raw CRC is zero.
InitFlip ==
    \/ InitAlert(HCValid \cup HCZero)
    \/ InitPollAndCommand(HCValid, {1}, {2}, {3}, {1})
    \/ InitPollAndCommand(HCValid, {0}, {0}, {4}, {2})
    \/ InitPollResponse(HCValid, {45}, {160}, {101}, {35}, {TRUE})
    \/ InitPollResponse(HCValid, {50}, {199}, {199}, {62}, {FALSE})

\* buf[i] ^= (1 << k) for i, k in 0..7, on a buffer that holds the frame just
\* encoded.
FlipBit ==
    /\ pokes < MaxFlips
    /\ sent.ok
    /\ \E i \in 0..7, k \in 0..7 :
          buf' = Put(buf, i, BitXor(At(buf, i), Shl(1, k)))
    /\ pokes' = pokes + 1
    /\ call' = NoCall("flip")
    /\ ret' = 0
    /\ sent' = [sent EXCEPT !.ok = FALSE]
    /\ UNCHANGED <<a1, a2>>

NextFlip == SendA1 \/ FlipBit \/ ReceiveA2

SpecFlip == InitFlip /\ [][NextFlip]_vars

(***************************************************************************)
(* The same corruption test with up to MaxBits bits of one encoded frame   *)
(* inverted before it is decoded.  The bits of one corruption are chosen   *)
(* in increasing order of position, so that each set of bits arises once.  *)
(***************************************************************************)
\* How many bits of an encoded frame are inverted.
MaxBits == 3

\* The bit positions inverted, 8 * byte + bit: the lowest and the highest bit of
\* every byte of the frame.
FlipPos == {8 * i + k : i \in 0..7, k \in {0, 7}}

\* One valid instance of each variant; the raw CRC of the CC1Alert frame is zero.
InitBits ==
    \/ InitAlert(HCZero)
    \/ InitPollAndCommand(HCValid, {1}, {2}, {3}, {1})
    \/ InitPollResponse(HCValid, {45}, {160}, {101}, {35}, {TRUE})

\* buf[n / 8] ^= (1 << (n % 8)), on the first frame encoded or after a lower bit.
FlipNext ==
    /\ pokes < MaxBits
    /\ \E n \in FlipPos :
          /\ (sent.ok /\ pokes = 0) \/ (call.op = "flipbit" /\ n > call.bit)
          /\ buf' = Put(buf, n \div 8, BitXor(At(buf, n \div 8), Shl(1, n % 8)))
          /\ call' = [op |-> "flipbit", on |-> "", null |-> FALSE, buflen |-> 0,
                      includeCRC |-> FALSE, bit |-> n]
    /\ pokes' = pokes + 1
    /\ ret' = 0
    /\ sent' = [sent EXCEPT !.ok = FALSE]
    /\ UNCHANGED <<a1, a2>>

NextBits == SendA1 \/ FlipNext \/ ReceiveA2

SpecBits == InitBits /\ [][NextBits]_vars

(***************************************************************************)
(* The factories on their own: the arguments of one call of make are       *)
(* chosen, the instance r that make starts from is default-constructed,    *)
(* and make fills it in and returns it (a1).                               *)
(***************************************************************************)
\* Arguments given to the factories: house codes valid and invalid in either
\* byte, and field bytes at, inside and beyond the ends of the ranges.
MakeHC == {<<10, 21>>, <<255, 0>>, <<10, 255>>, <<0, 254>>}
MakeRP == {0, 1, 100, 101, 150, 255}
MakeLC == {0, 2, 3, 5, 255}
MakeLT == {0, 1, 3, 15, 16, 255}
MakeLF == {0, 1, 3, 4, 255}
MakeRH == {0, 45, 50, 51, 255}
MakeTP == {0, 160, 199, 200}
MakeTR == {0, 101, 199, 255}
MakeAL == {0, 1, 35, 62, 63}

\* The call of a factory with arguments args: pending, then returned.
MakeCall(op, args) ==
    [op |-> op, on |-> "a1", null |-> FALSE, buflen |-> 0, includeCRC |-> FALSE,
     args |-> args]

InitMakeCommon(args) ==
    /\ a2 = a1
    /\ \E f \in FillIn : buf = [i \in 1..BufCap |-> f]
    /\ call = MakeCall("new", args)
    /\ ret = 0
    /\ sent = [ok |-> FALSE, inst |-> a1, crc |-> FALSE]
    /\ pokes = 0

InitMake ==
    \/ \E hc \in MakeHC, u \in Indeterminate :
          /\ a1 = CC1Alert_default(u)
          /\ InitMakeCommon(<<hc[1], hc[2]>>)
    \/ \E hc \in MakeHC, rp \in MakeRP, lc \in MakeLC, lt \in MakeLT, lf \in MakeLF,
          u \in Indeterminate :
          /\ a1 = CC1PollAndCommand_default(
                     [hc2 |-> u, rp |-> u, lc |-> u, lt |-> u, lf |-> u])
          /\ InitMakeCommon(<<hc[1], hc[2], rp, lc, lt, lf>>)
    \/ \E hc \in MakeHC, rh \in MakeRH, tp \in MakeTP, tr \in MakeTR, al \in MakeAL,
          s \in BOOLEAN, w \in BOOLEAN, sy \in BOOLEAN, u \in Indeterminate :
          /\ a1 = CC1PollResponse_default(
                     [hc2 |-> u, rh |-> u, tp |-> u, tr |-> u, al |-> u,
                      w |-> (u # 0), s |-> (u # 0), sy |-> (u # 0)])
          /\ InitMakeCommon(<<hc[1], hc[2], rh, tp, tr, al, s, w, sy>>)

\* The factory returns: a1 = CC1xxx::make(args).
Made(r) ==
    /\ call.op = "new"
    /\ a1' = r
    /\ call' = [call EXCEPT !.op = "made"]
    /\ UNCHANGED <<a2, buf, ret, sent, pokes>>

MakeAlert ==
    /\ a1.kind = "Alert"
    /\ Made(CC1Alert_make(call.args[1], call.args[2]))

MakePollAndCommand ==
    /\ a1.kind = "PollAndCommand"
    /\ LET a == call.args IN
       Made(CC1PollAndCommand_make(a[1], a[2], a[3], a[4], a[5], a[6]))

MakePollResponse ==
    /\ a1.kind = "PollResponse"
    /\ LET a == call.args IN
       Made(CC1PollResponse_make(a[1], a[2], a[3], a[4], a[5], a[6], a[7], a[8], a[9]))

NextMake == MakeAlert \/ MakePollAndCommand \/ MakePollResponse

SpecMake == InitMake /\ [][NextMake]_vars

(***************************************************************************)
(* decodeSimple on its own: the buffer holds an arbitrary received frame,  *)
(* with a checksum byte that matches its body or not, and is decoded into  *)
(* a default-constructed instance.                                         *)
(***************************************************************************)
\* Bytes of the received CC1PollAndCommand frames: at and beyond the ends of what
\* decodeSimple accepts.
RxType == {FTp2_CC1PollAndCmd, FTp2_CC1Alert}
RxByte3 == {0, 1, 101, 102}
RxByte4 == {0, 3, 60, 78, 192, 255}
RxByte5 == {1, 2}
RxByte6 == {1, 3}

\* The body followed by its checksum (good) or by another byte.
WithChecksum(body, good) ==
    LET c == computeSimpleCRC(body, 7) IN
    Append(body, IF good THEN c ELSE U8(c + 1))

\* Bytes of the received CC1PollResponse frames.
RxPRType == {FTp2_CC1PollResponse, FTp2_CC1PollAndCmd}
RxPRByte3 == {0, 1, 51, 52, 110, 192, 255}
RxPRByte4 == {0, 1, 200, 201}
RxPRByte5 == {0, 1, 200, 201}
RxPRByte6 == {0, 1, 2, 71, 124, 126, 130}
\* Bytes of the received CC1Alert frames.
RxAlType == {FTp2_CC1Alert, FTp2_CC1PollResponse}
RxAlByte3 == {1, 2}
RxAlByte4 == {1, 3}
RxAlByte5 == {1, 255}
RxAlByte6 == {0, 1}

\* A received frame in the buffer, the instance a2 to decode it into, and a1.
InitReceived(made, fresh, T, B3, B4, B5, B6) ==
    /\ \E t \in T, hc \in HCValid, b3 \in B3, b4 \in B4, b5 \in B5,
          b6 \in B6, good \in BOOLEAN, f \in FillIn :
          buf = Padded(WithChecksum(<<t, hc[1], hc[2], b3, b4, b5, b6>>, good), f)
    /\ a1 = made
    /\ a2 \in fresh
    /\ call = NoCall("received")
    /\ ret = 0
    /\ sent = [ok |-> FALSE, inst |-> a1, crc |-> FALSE]
    /\ pokes = 0

InitDecode ==
    \/ InitReceived(CC1PollAndCommand_make(10, 21, 1, 2, 3, 1),
                    {CC1PollAndCommand_default(
                         [hc2 |-> u, rp |-> u, lc |-> u, lt |-> u, lf |-> u]) :
                       u \in Indeterminate},
                    RxType, RxByte3, RxByte4, RxByte5, RxByte6)
    \/ InitReceived(CC1PollResponse_make(10, 21, 45, 160, 101, 35, TRUE, FALSE, FALSE),
                    {CC1PollResponse_default(
                         [hc2 |-> u, rh |-> u, tp |-> u, tr |-> u, al |-> u,
                          w |-> (u # 0), s |-> (u # 0), sy |-> (u # 0)]) :
                       u \in Indeterminate},
                    RxPRType, RxPRByte3, RxPRByte4, RxPRByte5, RxPRByte6)
    \/ InitReceived(CC1Alert_make(10, 21),
                    {CC1Alert_default(u) : u \in Indeterminate},
                    RxAlType, RxAlByte3, RxAlByte4, RxAlByte5, RxAlByte6)

NextDecode == DecodeA2 \/ ReceiveA2 \/ SendA2

SpecDecode == InitDecode /\ [][NextDecode]_vars

(***************************************************************************)
(* The checksum on its own, as testCommonCRC calls it: a buffer of BufCap  *)
(* bytes whose first 7 hold a frame body, and computeSimpleCRC called with *)
(* several claimed lengths.                                                *)
(***************************************************************************)
\* Bytes of the buffers the checksum is computed over.
CRCByte0 == {0, FTp2_CC1Alert, FTp2_CC1PollAndCmd, FTp2_CC1PollResponse}
CRCHouse == {<<0, 0>>, <<10, 21>>, <<99, 99>>}
CRCByte3 == {1, 2, 110}
CRCByte4 == {1, 78, 161}
CRCByte5 == {1, 102}
CRCByte6 == {0, 1, 70}
\* Lengths passed to computeSimpleCRC: 1, 6, primary_frame_bytes, sizeof(buf).
CRCLenIn == {1, 6, 7, BufCap}

InitCRC ==
    /\ \E t \in CRCByte0, h \in CRCHouse, b3 \in CRCByte3, b4 \in CRCByte4,
          b5 \in CRCByte5, b6 \in CRCByte6, f \in FillIn :
          buf = Padded(<<t, h[1], h[2], b3, b4, b5, b6>>, f)
    /\ a1 = CC1Alert_make(10, 21)
    /\ a2 = CC1Alert_default(0)
    /\ call = NoCall("none")
    /\ ret = 0
    /\ sent = [ok |-> FALSE, inst |-> a1, crc |-> FALSE]
    /\ pokes = 0

\* CC1Base::computeSimpleCRC(buf, buflen)
ComputeCRC ==
    /\ \E n \in CRCLenIn :
          /\ ret' = computeSimpleCRC(buf, n)
          /\ call' = [NoCall("crc") EXCEPT !.buflen = n]
    /\ UNCHANGED <<a1, a2, buf, sent, pokes>>

NextCRC == ComputeCRC

SpecCRC == InitCRC /\ [][NextCRC]_vars

(***************************************************************************)
(* Two calls in flight at once, each executed one source line at a time:   *)
(* thread t1 runs on a1 and on the buffer at address 0, thread t2 runs on  *)
(* a2 and on the buffer at address FrameLen, and the scheduler picks which *)
(* of the two executes its next line.  pc is the line of part_001 about to *)
(* be executed, 0 once the call has returned.                              *)
(***************************************************************************)
\* Bytes of one buffer: the 8 bytes of a frame with its checksum.
FrameLen == 8

\* buf[i] of the thread, its buf pointing to address t.base of the memory m.
Rd(m, t, i) == At(m, t.base + i)
Wr(m, t, i, v) == Put(m, t.base + i, v)

\* What one line does: the thread, the instance and the memory after it, and the
\* set of indices of buf that it read or wrote.
R(t, o, m, at) == [t |-> t, obj |-> o, mem |-> m, at |-> at]

\* Control passes to a line; the outermost function returns v; the function
\* computeSimpleCRC is called from a line and returns v to it.
Go(t, line) == [t EXCEPT !.pc = line, !.back = FALSE]
Finish(t, v) == [t EXCEPT !.pc = 0, !.ret = v, !.back = FALSE]
CallCRC(t) == [t EXCEPT !.pc = 38, !.ra = t.pc]
Return(t, v) ==
    IF t.ra = 0 THEN Finish(t, v)
    ELSE [t EXCEPT !.pc = t.ra, !.ra = 0, !.val = v, !.back = TRUE]

\* CC1Base::computeSimpleCRC, line by line; line 45 is one turn of the loop.
computeSimpleCRC_line(t, o, m) ==
    CASE t.pc = 38 -> R(IF t.buflen < 7 THEN Return(t, 0) ELSE Go(t, 42), o, m, {})
      [] t.pc = 42 -> R([Go(t, 43) EXCEPT !.crc = Rd(m, t, 0)], o, m, {0})
      [] t.pc = 43 -> R(IF 0 = t.crc THEN Return(t, 0) ELSE [Go(t, 45) EXCEPT !.i = 1],
                        o, m, {})
      [] t.pc = 45 -> IF t.i < 7
                      THEN R([t EXCEPT !.crc = crc7_5B_update(t.crc, Rd(m, t, t.i)),
                                       !.i = t.i + 1], o, m, {t.i})
                      ELSE R(Go(t, 49), o, m, {})
      [] t.pc = 49 -> R(IF 0 # t.crc THEN Return(t, t.crc) ELSE Go(t, 50), o, m, {})
      [] t.pc = 50 -> R(Return(t, crc7_5B_update_nz_ALT), o, m, {})

\* CC1Alert::encodeSimple, line by line.
CC1Alert_encodeSimple_line(t, o, m) ==
    CASE t.pc = 58 -> R(IF ~encodeSimpleArgsSane(t.null, t.buflen, t.includeCRC)
                        THEN Finish(t, 0) ELSE Go(t, 59), o, m, {})
      [] t.pc = 59 -> R(Go(t, 60), o, Wr(m, t, 0, FTp2_CC1Alert), {0})
      [] t.pc = 60 -> R(Go(t, 61), o, Wr(m, t, 1, o.hc1), {1})
      [] t.pc = 61 -> R(Go(t, 62), o, Wr(m, t, 2, o.hc2), {2})
      [] t.pc = 62 -> R(Go(t, 63), o, Wr(m, t, 3, 1), {3})
      [] t.pc = 63 -> R(Go(t, 64), o, Wr(m, t, 4, 1), {4})
      [] t.pc = 64 -> R(Go(t, 65), o, Wr(m, t, 5, 1), {5})
      [] t.pc = 65 -> R(Go(t, 66), o, Wr(m, t, 6, 1), {6})
      [] t.pc = 66 -> R(IF ~t.includeCRC THEN Finish(t, 7) ELSE Go(t, 67), o, m, {})
      [] t.pc = 67 -> IF ~t.back THEN R(CallCRC(t), o, m, {})
                      ELSE R(Go(t, 68), o, Wr(m, t, 7, t.val), {7})
      [] t.pc = 68 -> R(Finish(t, 8), o, m, {})

\* CC1Alert::decodeSimple, line by line.
CC1Alert_decodeSimple_line(t, o, m) ==
    CASE t.pc = 77 -> R(Go(t, 79), forceInvalid(o), m, {})
      [] t.pc = 79 -> R(IF ~decodeSimpleArgsSane(t.null, t.buflen, TRUE)
                        THEN Finish(t, 0) ELSE Go(t, 81), o, m, {})
      [] t.pc = 81 -> R(IF FTp2_CC1Alert # Rd(m, t, 0) THEN Finish(t, 0) ELSE Go(t, 83),
                        o, m, {0})
      [] t.pc = 83 -> R(IF 1 # Rd(m, t, 3) THEN Finish(t, 0) ELSE Go(t, 85), o, m, {3})
      [] t.pc = 85 -> IF ~t.back THEN R(CallCRC(t), o, m, {})
                      ELSE R(IF t.val # Rd(m, t, 7) THEN Finish(t, 0) ELSE Go(t, 87),
                             o, m, {7})
      [] t.pc = 87 -> R(Go(t, 88), [o EXCEPT !.hc1 = Rd(m, t, 1)], m, {1})
      [] t.pc = 88 -> R(Go(t, 91), [o EXCEPT !.hc2 = Rd(m, t, 2)], m, {2})
      [] t.pc = 91 -> R(Finish(t, 8), o, m, {})

\* Fault: the checksum is written one byte beyond the frame.
CC1PollAndCommand_encodeSimple_line_crc8(t, o, m) ==
    CASE t.pc = 122 -> R(IF ~encodeSimpleArgsSane(t.null, t.buflen, t.includeCRC)
                         THEN Finish(t, 0) ELSE Go(t, 123), o, m, {})
      [] t.pc = 123 -> R(Go(t, 124), o, Wr(m, t, 0, FTp2_CC1PollAndCmd), {0})
      [] t.pc = 124 -> R(Go(t, 125), o, Wr(m, t, 1, o.hc1), {1})
      [] t.pc = 125 -> R(Go(t, 126), o, Wr(m, t, 2, o.hc2), {2})
      [] t.pc = 126 -> R(Go(t, 127), o, Wr(m, t, 3, U8(o.rp + 1)), {3})
      [] t.pc = 127 -> R(Go(t, 128), o,
                         Wr(m, t, 4, U8(BitOr(BitOr(Shl(o.lf, 6), BitAnd(Shl(o.lt, 2), 60)),
                                              BitAnd(o.lc, 3)))), {4})
      [] t.pc = 128 -> R(Go(t, 129), o, Wr(m, t, 5, 1), {5})
      [] t.pc = 129 -> R(Go(t, 130), o, Wr(m, t, 6, 1), {6})
      [] t.pc = 130 -> R(IF ~t.includeCRC THEN Finish(t, 7) ELSE Go(t, 131), o, m, {})
      [] t.pc = 131 -> IF ~t.back THEN R(CallCRC(t), o, m, {})
                       ELSE R(Go(t, 132), o, Wr(m, t, 8, t.val), {8})
      [] t.pc = 132 -> R(Finish(t, 8), o, m, {})

\* CC1PollAndCommand::encodeSimple, line by line.
CC1PollAndCommand_encodeSimple_line(t, o, m) ==
    CASE t.pc = 122 -> R(IF ~encodeSimpleArgsSane(t.null, t.buflen, t.includeCRC)
                         THEN Finish(t, 0) ELSE Go(t, 123), o, m, {})
      [] t.pc = 123 -> R(Go(t, 124), o, Wr(m, t, 0, FTp2_CC1PollAndCmd), {0})
      [] t.pc = 124 -> R(Go(t, 125), o, Wr(m, t, 1, o.hc1), {1})
      [] t.pc = 125 -> R(Go(t, 126), o, Wr(m, t, 2, o.hc2), {2})
      [] t.pc = 126 -> R(Go(t, 127), o, Wr(m, t, 3, U8(o.rp + 1)), {3})
      [] t.pc = 127 -> R(Go(t, 128), o,
                         Wr(m, t, 4, U8(BitOr(BitOr(Shl(o.lf, 6), BitAnd(Shl(o.lt, 2), 60)),
                                              BitAnd(o.lc, 3)))), {4})
      [] t.pc = 128 -> R(Go(t, 129), o, Wr(m, t, 5, 1), {5})
      [] t.pc = 129 -> R(Go(t, 130), o, Wr(m, t, 6, 1), {6})
      [] t.pc = 130 -> R(IF ~t.includeCRC THEN Finish(t, 7) ELSE Go(t, 131), o, m, {})
      [] t.pc = 131 -> IF ~t.back THEN R(CallCRC(t), o, m, {})
                       ELSE R(Go(t, 132), o, Wr(m, t, 7, t.val), {7})
      [] t.pc = 132 -> R(Finish(t, 8), o, m, {})

\* Fault: the house code is extracted before the checksum is compared.
CC1PollAndCommand_decodeSimple_line_hcfirst(t, o, m) ==
    CASE t.pc = 141 -> R(Go(t, 143), forceInvalid(o), m, {})
      [] t.pc = 143 -> R(IF ~decodeSimpleArgsSane(t.null, t.buflen, TRUE)
                         THEN Finish(t, 0) ELSE Go(t, 145), o, m, {})
      [] t.pc = 145 -> R(IF FTp2_CC1PollAndCmd # Rd(m, t, 0)
                         THEN Finish(t, 0) ELSE Go(t, 147), o, m, {0})
      [] t.pc = 147 -> R(IF 1 # Rd(m, t, 5) THEN Finish(t, 0) ELSE Go(t, 149), o, m, {5})
      [] t.pc = 149 -> R([Go(t, 150) EXCEPT !.loc = U8(Rd(m, t, 3) - 1)], o, m, {3})
      [] t.pc = 150 -> R(IF t.loc >= 101 THEN Finish(t, 0) ELSE Go(t, 151), o, m, {})
      [] t.pc = 151 -> R(Go(t, 153), [o EXCEPT !.rp = t.loc], m, {})
      [] t.pc = 153 -> R(Go(t, 154), [o EXCEPT !.lc = BitAnd(Rd(m, t, 4), 3)], m, {4})
      [] t.pc = 154 -> R(Go(t, 155), [o EXCEPT !.lt = BitAnd(Shr(Rd(m, t, 4), 2), 15)],
                         m, {4})
      [] t.pc = 155 -> R(IF 0 = o.lt THEN Finish(t, 0) ELSE Go(t, 156), o, m, {})
      [] t.pc = 156 -> R(Go(t, 157), [o EXCEPT !.lf = BitAnd(Shr(Rd(m, t, 4), 6), 3)],
                         m, {4})
      [] t.pc = 157 -> R(IF 0 = o.lf THEN Finish(t, 0) ELSE Go(t, 161), o, m, {})
      [] t.pc = 161 -> R(Go(t, 162), [o EXCEPT !.hc1 = Rd(m, t, 1)], m, {1})
      [] t.pc = 162 -> R(Go(t, 159), [o EXCEPT !.hc2 = Rd(m, t, 2)], m, {2})
      [] t.pc = 159 -> IF ~t.back THEN R(CallCRC(t), o, m, {})
                       ELSE R(IF t.val # Rd(m, t, 7) THEN Finish(t, 0) ELSE Go(t, 165),
                              o, m, {7})
      [] t.pc = 165 -> R(Finish(t, 8), o, m, {})

\* CC1PollAndCommand::decodeSimple, line by line; loc is the local _rp.
CC1PollAndCommand_decodeSimple_line(t, o, m) ==
    CASE t.pc = 141 -> R(Go(t, 143), forceInvalid(o), m, {})
      [] t.pc = 143 -> R(IF ~decodeSimpleArgsSane(t.null, t.buflen, TRUE)
                         THEN Finish(t, 0) ELSE Go(t, 145), o, m, {})
      [] t.pc = 145 -> R(IF FTp2_CC1PollAndCmd # Rd(m, t, 0)
                         THEN Finish(t, 0) ELSE Go(t, 147), o, m, {0})
      [] t.pc = 147 -> R(IF 1 # Rd(m, t, 5) THEN Finish(t, 0) ELSE Go(t, 149), o, m, {5})
      [] t.pc = 149 -> R([Go(t, 150) EXCEPT !.loc = U8(Rd(m, t, 3) - 1)], o, m, {3})
      [] t.pc = 150 -> R(IF t.loc >= 101 THEN Finish(t, 0) ELSE Go(t, 151), o, m, {})
      [] t.pc = 151 -> R(Go(t, 153), [o EXCEPT !.rp = t.loc], m, {})
      [] t.pc = 153 -> R(Go(t, 154), [o EXCEPT !.lc = BitAnd(Rd(m, t, 4), 3)], m, {4})
      [] t.pc = 154 -> R(Go(t, 155), [o EXCEPT !.lt = BitAnd(Shr(Rd(m, t, 4), 2), 15)],
                         m, {4})
      [] t.pc = 155 -> R(IF 0 = o.lt THEN Finish(t, 0) ELSE Go(t, 156), o, m, {})
      [] t.pc = 156 -> R(Go(t, 157), [o EXCEPT !.lf = BitAnd(Shr(Rd(m, t, 4), 6), 3)],
                         m, {4})
      [] t.pc = 157 -> R(IF 0 = o.lf THEN Finish(t, 0) ELSE Go(t, 159), o, m, {})
      [] t.pc = 159 -> IF ~t.back THEN R(CallCRC(t), o, m, {})
                       ELSE R(IF t.val # Rd(m, t, 7) THEN Finish(t, 0) ELSE Go(t, 161),
                              o, m, {7})
      [] t.pc = 161 -> R(Go(t, 162), [o EXCEPT !.hc1 = Rd(m, t, 1)], m, {1})
      [] t.pc = 162 -> R(Go(t, 165), [o EXCEPT !.hc2 = Rd(m, t, 2)], m, {2})
      [] t.pc = 165 -> R(Finish(t, 8), o, m, {})

\* CC1PollResponse::encodeSimple, line by line.
CC1PollResponse_encodeSimple_line(t, o, m) ==
    CASE t.pc = 204 -> R(IF ~encodeSimpleArgsSane(t.null, t.buflen, t.includeCRC)
                         THEN Finish(t, 0) ELSE Go(t, 205), o, m, {})
      [] t.pc = 205 -> R(Go(t, 206), o, Wr(m, t, 0, FTp2_CC1PollResponse), {0})
      [] t.pc = 206 -> R(Go(t, 207), o, Wr(m, t, 1, o.hc1), {1})
      [] t.pc = 207 -> R(Go(t, 208), o, Wr(m, t, 2, o.hc2), {2})
      [] t.pc = 208 -> R(Go(t, 209), o, Wr(m, t, 3, U8(o.rh + 1)), {3})
      [] t.pc = 209 -> IF o.w THEN R(Go(t, 210), o, Wr(m, t, 3, BitOr(Rd(m, t, 3), 128)), {3})
                       ELSE R(Go(t, 210), o, m, {})
      [] t.pc = 210 -> IF o.s THEN R(Go(t, 211), o, Wr(m, t, 3, BitOr(Rd(m, t, 3), 64)), {3})
                       ELSE R(Go(t, 211), o, m, {})
      [] t.pc = 211 -> R(Go(t, 212), o, Wr(m, t, 4, U8(o.tp + 1)), {4})
      [] t.pc = 212 -> R(Go(t, 213), o, Wr(m, t, 5, U8(o.tr + 1)), {5})
      [] t.pc = 213 -> R(Go(t, 214), o, Wr(m, t, 6, U8(Shl(o.al, 1))), {6})
      [] t.pc = 214 -> IF o.sy THEN R(Go(t, 215), o, Wr(m, t, 6, BitOr(Rd(m, t, 6), 128)), {6})
                       ELSE R(Go(t, 215), o, m, {})
      [] t.pc = 215 -> R(IF ~t.includeCRC THEN Finish(t, 7) ELSE Go(t, 216), o, m, {})
      [] t.pc = 216 -> IF ~t.back THEN R(CallCRC(t), o, m, {})
                       ELSE R(Go(t, 217), o, Wr(m, t, 7, t.val), {7})
      [] t.pc = 217 -> R(Finish(t, 8), o, m, {})

\* CC1PollResponse::decodeSimple, line by line; loc is the local _rh, _tp, _tr
\* or _al.
CC1PollResponse_decodeSimple_line(t, o, m) ==
    CASE t.pc = 226 -> R(Go(t, 228), forceInvalid(o), m, {})
      [] t.pc = 228 -> R(IF ~decodeSimpleArgsSane(t.null, t.buflen, TRUE)
                         THEN Finish(t, 0) ELSE Go(t, 230), o, m, {})
      [] t.pc = 230 -> R(IF FTp2_CC1PollResponse # Rd(m, t, 0)
                         THEN Finish(t, 0) ELSE Go(t, 234), o, m, {0})
      [] t.pc = 234 -> R([Go(t, 235) EXCEPT !.loc = BitAnd(Rd(m, t, 3), 63)], o, m, {3})
      [] t.pc = 235 -> R(IF (0 = t.loc) \/ (t.loc > 51) THEN Finish(t, 0) ELSE Go(t, 236),
                         o, m, {})
      [] t.pc = 236 -> R(Go(t, 237), [o EXCEPT !.rh = t.loc - 1], m, {})
      [] t.pc = 237 -> R(Go(t, 238), [o EXCEPT !.w = (0 # BitAnd(128, Rd(m, t, 3)))], m, {3})
      [] t.pc = 238 -> R(Go(t, 239), [o EXCEPT !.s = (0 # BitAnd(64, Rd(m, t, 3)))], m, {3})
      [] t.pc = 239 -> R([Go(t, 240) EXCEPT !.loc = U8(Rd(m, t, 4) - 1)], o, m, {4})
      [] t.pc = 240 -> R(IF t.loc >= 200 THEN Finish(t, 0) ELSE Go(t, 241), o, m, {})
      [] t.pc = 241 -> R(Go(t, 242), [o EXCEPT !.tp = t.loc], m, {})
      [] t.pc = 242 -> R([Go(t, 243) EXCEPT !.loc = U8(Rd(m, t, 5) - 1)], o, m, {5})
      [] t.pc = 243 -> R(IF t.loc >= 200 THEN Finish(t, 0) ELSE Go(t, 244), o, m, {})
      [] t.pc = 244 -> R(Go(t, 245), [o EXCEPT !.tr = t.loc], m, {})
      [] t.pc = 245 -> R([Go(t, 246) EXCEPT !.loc = BitAnd(Shr(Rd(m, t, 6), 1), 63)],
                         o, m, {6})
      [] t.pc = 246 -> R(IF (0 = t.loc) \/ (63 = t.loc) THEN Finish(t, 0) ELSE Go(t, 247),
                         o, m, {})
      [] t.pc = 247 -> R(Go(t, 248), [o EXCEPT !.al = t.loc], m, {})
      [] t.pc = 248 -> R(Go(t, 250), [o EXCEPT !.sy = (0 # BitAnd(128, Rd(m, t, 6)))], m, {6})
      [] t.pc = 250 -> IF ~t.back THEN R(CallCRC(t), o, m, {})
                       ELSE R(IF t.val # Rd(m, t, 7) THEN Finish(t, 0) ELSE Go(t, 252),
                              o, m, {7})
      [] t.pc = 252 -> R(Go(t, 253), [o EXCEPT !.hc1 = Rd(m, t, 1)], m, {1})
      [] t.pc = 253 -> R(Go(t, 256), [o EXCEPT !.hc2 = Rd(m, t, 2)], m, {2})
      [] t.pc = 256 -> R(Finish(t, 8), o, m, {})

\* The line at pc, of whichever function it belongs to.
Line(t, o, m) ==
    CASE t.pc \in 38..50 -> computeSimpleCRC_line(t, o, m)
      [] t.pc \in 58..68 -> CC1Alert_encodeSimple_line(t, o, m)
      [] t.pc \in 77..91 -> CC1Alert_decodeSimple_line(t, o, m)
      [] t.pc \in 122..132 -> CC1PollAndCommand_encodeSimple_line(t, o, m)
      [] t.pc \in 141..165 -> CC1PollAndCommand_decodeSimple_line(t, o, m)
      [] t.pc \in 204..217 -> CC1PollResponse_encodeSimple_line(t, o, m)
      [] t.pc \in 226..256 -> CC1PollResponse_decodeSimple_line(t, o, m)

\* The first line of a function, for an instance of a class.
Entry(fn, kind) ==
    CASE fn = "computeSimpleCRC" -> 38
      [] fn = "encodeSimple" ->
            (CASE kind = "Alert" -> 58 [] kind = "PollAndCommand" -> 122
               [] kind = "PollResponse" -> 204)
      [] fn = "decodeSimple" ->
            (CASE kind = "Alert" -> 77 [] kind = "PollAndCommand" -> 141
               [] kind = "PollResponse" -> 226)

\* A call of fn about to execute its first line on instance o and on the buffer
\* at address base of memory m.  trace lists the lines executed, acc the
\* addresses read or written, and entry keeps o and m as they were at the call.
Thread(fn, o, m, base, null, buflen, includeCRC) ==
    [fn |-> fn, pc |-> Entry(fn, o.kind), base |-> base, null |-> null,
     buflen |-> buflen, includeCRC |-> includeCRC,
     crc |-> 0, i |-> 0, loc |-> 0, val |-> 0, ra |-> 0, back |-> FALSE, ret |-> 0,
     trace |-> <<>>, acc |-> {}, entry |-> [obj |-> o, mem |-> m]]

\* The calls thread t1 makes: fn, buflen, includeCRC.
CallsT1 ==
    {<<"encodeSimple", 8, TRUE>>, <<"encodeSimple", 7, FALSE>>,
     <<"computeSimpleCRC", 8, FALSE>>, <<"decodeSimple", 8, FALSE>>}

\* The 8-byte frame of instance o.
FrameOf(o) == SubSeq(encodeSimple(o, FALSE, [i \in 1..FrameLen |-> 0], 8, TRUE).buf, 1, 8)

\* The calls thread t2 makes: frame to decode, null, buflen.  The frame of o with
\* every argument list, and with sane arguments that frame under another type,
\* with a field out of range, and with a wrong checksum.
CallsT2(o) ==
    LET f == SubSeq(FrameOf(o), 1, 7)
        other == IF o.kind = "Alert" THEN FTp2_CC1PollAndCmd ELSE FTp2_CC1Alert
        bad == CASE o.kind = "Alert" -> [f EXCEPT ![4] = 2]
                 [] o.kind = "PollAndCommand" -> [f EXCEPT ![5] = 60]
                 [] o.kind = "PollResponse" -> [f EXCEPT ![7] = 126]
    IN  {<<WithChecksum(f, TRUE), c[1], c[2]>> : c \in CallArgs}
        \cup {<<WithChecksum([f EXCEPT ![1] = other], TRUE), FALSE, 8>>,
              <<WithChecksum(bad, TRUE), FALSE, 8>>,
              <<WithChecksum(f, FALSE), FALSE, 8>>}

\* a1 made and a2 default-constructed; t1 is called on a1 and the first buffer,
\* which holds the frame of a1 if t1 decodes and is not initialised otherwise;
\* t2 decodes the second buffer into a2.
InitThreads(made, fresh) ==
    /\ a1 = made
    /\ a2 \in fresh
    /\ \E c1 \in CallsT1, c2 \in CallsT2(made), fill \in FillIn :
          /\ buf = (IF c1[1] = "decodeSimple" THEN FrameOf(made)
                    ELSE [i \in 1..FrameLen |-> fill]) \o c2[1]
          /\ call = [op |-> "lines", on |-> "", null |-> FALSE, buflen |-> 0,
                     includeCRC |-> FALSE,
                     t1 |-> Thread(c1[1], a1, buf, 0, FALSE, c1[2], c1[3]),
                     t2 |-> Thread("decodeSimple", a2, buf, FrameLen, c2[2], c2[3], FALSE)]
    /\ ret = 0
    /\ sent = [ok |-> FALSE, inst |-> a1, crc |-> FALSE]
    /\ pokes = 0

InitLines ==
    \/ InitThreads(CC1Alert_make(10, 21), {CC1Alert_default(u) : u \in Indeterminate})
    \/ InitThreads(CC1PollAndCommand_make(10, 21, 1, 2, 3, 1),
                   {CC1PollAndCommand_default(
                        [hc2 |-> u, rp |-> u, lc |-> u, lt |-> u, lf |-> u]) :
                      u \in Indeterminate})
    \/ InitThreads(CC1PollResponse_make(10, 21, 45, 160, 101, 35, TRUE, FALSE, TRUE),
                   {CC1PollResponse_default(
                        [hc2 |-> u, rh |-> u, tp |-> u, tr |-> u, al |-> u,
                         w |-> (u # 0), s |-> (u # 0), sy |-> (u # 0)]) :
                      u \in Indeterminate})

\* Thread id executes the line at its pc.
RunLine(id) ==
    LET t == call[id]
        o == IF id = "t1" THEN a1 ELSE a2
        r == Line(t, o, buf) IN
    /\ t.pc # 0
    /\ buf' = r.mem
    /\ a1' = IF id = "t1" THEN r.obj ELSE a1
    /\ a2' = IF id = "t2" THEN r.obj ELSE a2
    /\ call' = [call EXCEPT ![id] = [r.t EXCEPT !.trace = Append(t.trace, t.pc),
                                                !.acc = t.acc \cup {t.base + k : k \in r.at}]]
    /\ ret' = IF r.t.pc = 0 THEN r.t.ret ELSE ret
    /\ UNCHANGED <<sent, pokes>>

StepT1 == RunLine("t1")
StepT2 == RunLine("t2")

NextLines == StepT1 \/ StepT2

SpecLines == InitLines /\ [][NextLines]_vars

(***************************************************************************)
(* Properties.                                                             *)
(***************************************************************************)
\* The instance the last call was made on.
Target == IF call.on = "a1" THEN a1 ELSE a2

\* The declared ranges of the fields of an instance.
FieldsInRange(o) ==
    CASE o.kind = "Alert" -> TRUE
      [] o.kind = "PollAndCommand" ->
            o.rp \in 0..100 /\ o.lc \in 0..3 /\ o.lt \in 1..15 /\ o.lf \in 1..3
      [] o.kind = "PollResponse" ->
            o.rh \in 0..50 /\ o.tp \in 0..199 /\ o.tr \in 0..199 /\ o.al \in 1..62

\* Every getter of x returns what it returns for y.
SameGetters(x, y) ==
    /\ x.kind = y.kind
    /\ getHC1(x) = getHC1(y)
    /\ getHC2(x) = getHC2(y)
    /\ x.kind = "PollAndCommand" =>
          /\ getRP(x) = getRP(y)
          /\ getLC(x) = getLC(y)
          /\ getLT(x) = getLT(y)
          /\ getLF(x) = getLF(y)
    /\ x.kind = "PollResponse" =>
          /\ getRH(x) = getRH(y)
          /\ getTP(x) = getTP(y)
          /\ getTR(x) = getTR(y)
          /\ getAL(x) = getAL(y)
          /\ getW(x) = getW(y)
          /\ getS(x) = getS(y)
          /\ getSY(x) = getSY(y)

\* The last call was decodeSimple / encodeSimple.
Decoded == call.op = "decode"
Encoded == call.op = "encode"

\* C1: a frame that encodeSimple wrote with includeCRC = true for a made instance
\* with a valid house code and fields in range, decoded from a buffer of length
\* >= 8, gives 8, a valid instance, and every getter returns the original value.
C1_RoundTrip ==
    ( /\ Decoded
      /\ ~call.null
      /\ call.buflen >= 8
      /\ sent.ok
      /\ sent.crc
      /\ sent.inst = a1
      /\ houseCodeIsValid(a1)
      /\ FieldsInRange(a1) )
    => ( /\ ret = 8
         /\ isValid(a2)
         /\ SameGetters(a2, a1) )

C1_Witness ==
    /\ Decoded
    /\ ret = 8
    /\ sent.ok
    /\ sent.crc
    /\ a1.kind = "PollResponse"
    /\ a1.s
    /\ ~a1.w
    /\ a1.rh = 45
    /\ SameGetters(a2, a1)

\* C2 as amended: when decodeSimple returns non-zero it returns 8, the house code is
\* bytes 1 and 2 of the buffer, and isValid() holds exactly when neither of those
\* bytes is 0xFF.
C2_DecodeSuccess ==
    (Decoded /\ ret # 0)
    => ( /\ ret = 8
         /\ getHC1(a2) = At(buf, 1)
         /\ getHC2(a2) = At(buf, 2)
         /\ isValid(a2) <=> (At(buf, 1) # 255 /\ At(buf, 2) # 255) )

\* C2 as stated: when decodeSimple returns non-zero it returns 8, isValid() is true
\* and the house code is bytes 1 and 2 of the buffer.
C2_Original ==
    (Decoded /\ ret # 0)
    => ( /\ ret = 8
         /\ isValid(a2)
         /\ getHC1(a2) = At(buf, 1)
         /\ getHC2(a2) = At(buf, 2) )

C2_Witness ==
    /\ Decoded
    /\ ret = 8
    /\ At(buf, 1) = 255
    /\ ~isValid(a2)

\* C3: when decodeSimple returns 0, whatever the instance held before, isValid() is
\* false and getHC1() is 0xFF.
C3_DecodeFailure ==
    (Decoded /\ ret = 0) => (~isValid(a2) /\ getHC1(a2) = 255)

\* A failed decode into an instance that an earlier decode had made valid (only a
\* successful decode sets hc2 to the 21 of a1).
C3_Witness ==
    /\ Decoded
    /\ ret = 0
    /\ pokes = 1
    /\ getHC2(a2) = 21
    /\ getHC1(a2) = 255

\* The checksum byte of the buffer matches the checksum of its first 7 bytes.
ChecksumMatches == At(buf, 7) = computeSimpleCRC(buf, 7)

\* C4 as amended: decodeSimple returns 0 for every frame whose first reserved byte
\* differs from 1 (byte 3 for Alert, byte 5 for PollAndCommand), even when the
\* checksum matches; the later reserved bytes are not checked.
C4_FirstReservedByte ==
    ( /\ Decoded
      /\ \/ a2.kind = "Alert" /\ At(buf, 3) # 1
         \/ a2.kind = "PollAndCommand" /\ At(buf, 5) # 1 )
    => ret = 0

\* C4 as stated: decodeSimple returns 0 for every frame in which any reserved byte
\* differs from 1 (bytes 3, 4, 5, 6 for Alert, bytes 5, 6 for PollAndCommand).
C4_Original ==
    ( /\ Decoded
      /\ \/ a2.kind = "Alert" /\ \E i \in 3..6 : At(buf, i) # 1
         \/ a2.kind = "PollAndCommand" /\ \E i \in 5..6 : At(buf, i) # 1 )
    => ret = 0

C4_Witness ==
    /\ Decoded
    /\ a2.kind = "PollAndCommand"
    /\ At(buf, 5) # 1
    /\ At(buf, 0) = FTp2_CC1PollAndCmd
    /\ ChecksumMatches
    /\ ret = 0

\* C5: decodeSimple returns 0 and leaves the instance invalid whenever the buffer
\* is null or buflen < 8, whatever the buffer holds.
C5_DecodeArgs ==
    (Decoded /\ (call.null \/ call.buflen < 8)) => (ret = 0 /\ ~isValid(a2))

\* A buffer of length 7 holding a whole valid frame, checksum byte included.
C5_Witness ==
    /\ Decoded
    /\ ~call.null
    /\ call.buflen = 7
    /\ sent.ok
    /\ sent.crc
    /\ houseCodeIsValid(sent.inst)
    /\ ret = 0
    /\ ~isValid(a2)

\* C6: encodeSimple returns 0 when the buffer is null, or buflen < 7, or buflen < 8
\* with includeCRC; otherwise 7 without the CRC and 8 with it.
C6_EncodeReturn ==
    Encoded =>
        ret = IF call.null \/ call.buflen < 7 \/ (call.buflen < 8 /\ call.includeCRC)
              THEN 0
              ELSE IF call.includeCRC THEN 8 ELSE 7

C6_Witness ==
    /\ Encoded
    /\ ~call.null
    /\ call.buflen = 7
    /\ call.includeCRC
    /\ ret = 0

\* The first 7 bytes of the buffer.
Frame7 == SubSeq(buf, 1, 7)

\* C7: a successful Alert encodeSimple writes '!' hc1 hc2 1 1 1 1 and, with
\* includeCRC, the checksum of those 7 bytes at offset 7.
C7_AlertLayout ==
    (Encoded /\ ret # 0 /\ Target.kind = "Alert")
    => ( /\ Frame7 = <<33, Target.hc1, Target.hc2, 1, 1, 1, 1>>
         /\ call.includeCRC =>
               At(buf, 7) = computeSimpleCRC(<<33, Target.hc1, Target.hc2, 1, 1, 1, 1>>, 7) )

C7_Witness ==
    /\ Encoded
    /\ ret = 8
    /\ Target.kind = "Alert"
    /\ Target.hc1 = 10
    /\ Target.hc2 = 21
    /\ At(buf, 7) = 55

\* C8: a successful PollAndCommand encodeSimple of a made instance writes
\* '?' hc1 hc2 rp+1 (lf<<6 | lt<<2 | lc) 1 1 and, with includeCRC, the checksum of
\* those 7 bytes at offset 7.
C8_PollAndCommandLayout ==
    (Encoded /\ ret # 0 /\ Target.kind = "PollAndCommand" /\ FieldsInRange(Target))
    => LET f == <<63, Target.hc1, Target.hc2, Target.rp + 1,
                  Target.lf * 64 + Target.lt * 4 + Target.lc, 1, 1>>
       IN  /\ Frame7 = f
           /\ call.includeCRC => At(buf, 7) = computeSimpleCRC(f, 7)

C8_Witness ==
    /\ Encoded
    /\ ret = 8
    /\ Target.kind = "PollAndCommand"
    /\ Target.rp = 1
    /\ At(buf, 3) = 2
    /\ At(buf, 4) = 78
    /\ At(buf, 7) = 92

Bit(flag) == IF flag THEN 1 ELSE 0

\* C9: a successful PollResponse encodeSimple of a made instance writes
\* '*' hc1 hc2 (w<<7 | s<<6 | rh+1) tp+1 tr+1 (sy<<7 | al<<1) and, with includeCRC,
\* the checksum of those 7 bytes at offset 7; bit 0 of byte 6 is zero.
C9_PollResponseLayout ==
    (Encoded /\ ret # 0 /\ Target.kind = "PollResponse" /\ FieldsInRange(Target))
    => LET f == <<42, Target.hc1, Target.hc2,
                  Bit(Target.w) * 128 + Bit(Target.s) * 64 + Target.rh + 1,
                  Target.tp + 1, Target.tr + 1,
                  Bit(Target.sy) * 128 + Target.al * 2>>
       IN  /\ Frame7 = f
           /\ At(buf, 6) % 2 = 0
           /\ call.includeCRC => At(buf, 7) = computeSimpleCRC(f, 7)

C9_Witness ==
    /\ Encoded
    /\ ret = 8
    /\ Target.kind = "PollResponse"
    /\ Target.s
    /\ ~Target.w
    /\ At(buf, 3) = 110
    /\ At(buf, 6) = 70
    /\ At(buf, 7) = 1

\* C10 as amended: for every made instance, the bytes encodeSimple writes at
\* offsets 3..6 are never 0x00, and 0xFF appears only at offset 4 of a
\* PollAndCommand frame with lf = 3, lt = 15 and lc = 3.
C10_Whitening ==
    (Encoded /\ ret # 0 /\ FieldsInRange(Target))
    => \A i \in 3..6 :
          /\ At(buf, i) # 0
          /\ At(buf, i) = 255 =>
                /\ Target.kind = "PollAndCommand"
                /\ i = 4
                /\ Target.lf = 3
                /\ Target.lt = 15
                /\ Target.lc = 3

\* C10 as stated: for every made instance, the bytes encodeSimple writes at offsets
\* 3..6 are neither 0x00 nor 0xFF.
C10_Original ==
    (Encoded /\ ret # 0 /\ FieldsInRange(Target))
    => \A i \in 3..6 : At(buf, i) # 0 /\ At(buf, i) # 255

C10_Witness ==
    /\ Encoded
    /\ ret # 0
    /\ Target.kind = "PollAndCommand"
    /\ Target.lf = 3
    /\ Target.lt = 15
    /\ Target.lc = 3
    /\ At(buf, 4) = 255

\* The last call was computeSimpleCRC.
Computed == call.op = "crc"

\* The CRC register after the loop of computeSimpleCRC over the buffer.
RawCRC == crcFold[At(buf, 0), buf, 1]

\* C11: computeSimpleCRC returns 0 exactly when the length is less than 7 or byte 0
\* is zero; in particular a raw CRC of zero is returned as the alternate constant.
C11_CRCZero ==
    Computed =>
        /\ (ret = 0) <=> (call.buflen < 7 \/ At(buf, 0) = 0)
        /\ (call.buflen >= 7 /\ At(buf, 0) # 0 /\ RawCRC = 0)
              => ret = crc7_5B_update_nz_ALT

\* The checksum of '!' 10 21 1 1 1 0, whose raw CRC is zero.
C11_Witness ==
    /\ Computed
    /\ call.buflen >= 7
    /\ At(buf, 0) = FTp2_CC1Alert
    /\ RawCRC = 0
    /\ ret = 128

\* The body (7 bytes) that encodeSimple writes for instance o.
Body(o) == SubSeq(encodeSimple(o, FALSE, buf, 7, FALSE).buf, 1, 7)

\* C12: computeSimpleCRC gives the published values: 80 for '!' 0 0 1 1 1 1, 55 for
\* '!' 10 21 1 1 1 1, 12 for '!' 99 99 1 1 1 1, 92 for the frame of
\* CC1PollAndCommand::make(10,21,1,2,3,1) and 1 for the frame of
\* CC1PollResponse::make(10,21,45,160,101,35,true,false,false).
C12_Fixtures ==
    (Computed /\ call.buflen >= 7) =>
        /\ Frame7 = <<33, 0, 0, 1, 1, 1, 1>> => ret = 80
        /\ Frame7 = <<33, 10, 21, 1, 1, 1, 1>> => ret = 55
        /\ Frame7 = <<33, 99, 99, 1, 1, 1, 1>> => ret = 12
        /\ Frame7 = Body(CC1PollAndCommand_make(10, 21, 1, 2, 3, 1)) => ret = 92
        /\ Frame7 = Body(CC1PollResponse_make(10, 21, 45, 160, 101, 35, TRUE, FALSE, FALSE))
              => ret = 1

C12_Witness ==
    /\ Computed
    /\ call.buflen = 7
    /\ Frame7 = Body(CC1PollResponse_make(10, 21, 45, 160, 101, 35, TRUE, FALSE, FALSE))
    /\ Frame7 = <<42, 10, 21, 110, 161, 102, 70>>
    /\ ret = 1

\* C13: the checksum byte that encodeSimple with includeCRC = true writes at offset 7
\* is neither 0x00 nor 0xFF, for every instance of every variant.
C13_ChecksumWhitened ==
    (Encoded /\ ret # 0 /\ call.includeCRC) => (At(buf, 7) # 0 /\ At(buf, 7) # 255)

\* The frame of CC1Alert::make(1, 91), whose raw CRC is zero.
C13_Witness ==
    /\ Encoded
    /\ ret = 8
    /\ call.includeCRC
    /\ Target.kind = "Alert"
    /\ Target.hc1 = 1
    /\ RawCRC = 0
    /\ At(buf, 7) = 128

\* The 8-byte frame that a1.encodeSimple(buf, sizeof(buf), true) writes.
FrameOfA1 == SubSeq(encodeSimple(a1, FALSE, buf, BufCap, TRUE).buf, 1, 8)

\* The first 8 bytes of the buffer differ from frame f in exactly one bit.
OneBitFrom(f) ==
    \E i \in 0..7 :
        /\ BitXor(At(buf, i), At(f, i)) \in {1, 2, 4, 8, 16, 32, 64, 128}
        /\ \A j \in (0..7) \ {i} : At(buf, j) = At(f, j)

\* C14: decoding the valid frame of a valid made instance with any one of its 64
\* bits inverted returns 0 and leaves the instance invalid.
C14_SingleBit ==
    ( /\ Decoded
      /\ isValid(a1)
      /\ FieldsInRange(a1)
      /\ OneBitFrom(FrameOfA1) )
    => (ret = 0 /\ ~isValid(a2))

\* A bit of the house code inverted in a CC1PollResponse frame: only the checksum
\* can tell.
C14_Witness ==
    /\ Decoded
    /\ a1.kind = "PollResponse"
    /\ OneBitFrom(FrameOfA1)
    /\ At(buf, 1) # a1.hc1
    /\ ret = 0
    /\ ~isValid(a2)

\* A factory has returned a1 for the arguments call.args.
MadeBy(kind) == call.op = "made" /\ a1.kind = kind

\* x limited to lo..hi.
Clamped(x, lo, hi) == IF x < lo THEN lo ELSE IF x > hi THEN hi ELSE x

\* C15: CC1PollAndCommand::make yields rp = min(rp, 100), lc = lc AND 3, lt clamped
\* into [1,15] and lf into [1,3]; make(hc1, hc2, 150, 5, 0, 0) with a valid house
\* code is valid with rp = 100, lc = 1, lt = 1, lf = 1.
C15_MakePollAndCommand ==
    MadeBy("PollAndCommand") =>
        LET a == call.args IN
        /\ getHC1(a1) = a[1]
        /\ getHC2(a1) = a[2]
        /\ getRP(a1) = Clamped(a[3], 0, 100)
        /\ getLC(a1) = a[4] % 4
        /\ getLT(a1) = Clamped(a[5], 1, 15)
        /\ getLF(a1) = Clamped(a[6], 1, 3)
        /\ (SubSeq(a, 3, 6) = <<150, 5, 0, 0>> /\ a[1] # 255 /\ a[2] # 255)
              => /\ isValid(a1)
                 /\ <<getRP(a1), getLC(a1), getLT(a1), getLF(a1)>> = <<100, 1, 1, 1>>

C15_Witness ==
    /\ MadeBy("PollAndCommand")
    /\ call.args = <<10, 21, 150, 5, 0, 0>>
    /\ isValid(a1)
    /\ <<getRP(a1), getLC(a1), getLT(a1), getLF(a1)>> = <<100, 1, 1, 1>>

\* C16: CC1PollResponse::make yields rh = min(rh, 50), tp = min(tp, 199),
\* tr = min(tr, 199), al clamped into [1,62] and the flags s, w, sy as given, in
\* that parameter order; every field is inside its declared range.
C16_MakePollResponse ==
    MadeBy("PollResponse") =>
        LET a == call.args IN
        /\ getHC1(a1) = a[1]
        /\ getHC2(a1) = a[2]
        /\ getRH(a1) = Clamped(a[3], 0, 50)
        /\ getTP(a1) = Clamped(a[4], 0, 199)
        /\ getTR(a1) = Clamped(a[5], 0, 199)
        /\ getAL(a1) = Clamped(a[6], 1, 62)
        /\ getS(a1) = a[7]
        /\ getW(a1) = a[8]
        /\ getSY(a1) = a[9]
        /\ FieldsInRange(a1)

C16_Witness ==
    /\ MadeBy("PollResponse")
    /\ call.args = <<10, 21, 51, 200, 255, 63, TRUE, FALSE, FALSE>>
    /\ <<getRH(a1), getTP(a1), getTR(a1), getAL(a1)>> = <<50, 199, 199, 62>>
    /\ getS(a1)
    /\ ~getW(a1)

\* C17: isValid() is true exactly when neither house-code byte is 0xFF: make with
\* 0xFF as hc1 or hc2 gives an invalid instance whatever the other arguments, make
\* with both bytes different from 0xFF a valid one, and a default-constructed
\* instance is invalid.
C17_IsValid ==
    /\ isValid(a1) <=> (getHC1(a1) # 255 /\ getHC2(a1) # 255)
    /\ call.op = "made" => (isValid(a1) <=> (call.args[1] # 255 /\ call.args[2] # 255))
    /\ call.op = "new" => ~isValid(a1)

\* make(10, 255, ...) of a CC1PollResponse: invalid by its second byte only.
C17_Witness ==
    /\ MadeBy("PollResponse")
    /\ call.args[1] = 10
    /\ call.args[2] = 255
    /\ call.args[3] = 45
    /\ ~isValid(a1)

Fields(o) ==
    CASE o.kind = "Alert" -> <<>>
      [] o.kind = "PollAndCommand" -> <<o.rp, o.lc, o.lt, o.lf>>
      [] o.kind = "PollResponse" -> <<o.rh, o.tp, o.tr, o.al, o.w, o.s, o.sy>>

\* The frame in the buffer fails before decodeSimple has extracted any field: at
\* the frame type, at the reserved byte, or at the range of the first field.
FailsEarly(kind) ==
    CASE kind = "Alert" -> TRUE
      [] kind = "PollAndCommand" ->
            At(buf, 0) # 63 \/ At(buf, 5) # 1 \/ At(buf, 3) \notin 1..101
      [] kind = "PollResponse" ->
            At(buf, 0) # 42 \/ (At(buf, 3) % 64) \notin 1..51

\* C19 as amended: only the house code is assigned after every check.  When
\* decodeSimple returns 0, hc1 is 0xFF and hc2 is as before; the variant fields are
\* unchanged if the frame fails before the first field is extracted, and otherwise
\* the first field already holds the value extracted from the buffer.
C19_HouseCodeLast ==
    [][ (call'.op = "decode" /\ ret' = 0) =>
            /\ a2'.hc1 = 255
            /\ a2'.hc2 = a2.hc2
            /\ FailsEarly(a2.kind) => Fields(a2') = Fields(a2)
            /\ (~FailsEarly(a2.kind) /\ a2.kind = "PollAndCommand") =>
                  /\ a2'.rp = At(buf, 3) - 1
                  /\ a2'.lc = At(buf, 4) % 4
                  /\ a2'.lt = (At(buf, 4) \div 4) % 16
            /\ (~FailsEarly(a2.kind) /\ a2.kind = "PollResponse") =>
                  /\ a2'.rh = (At(buf, 3) % 64) - 1
                  /\ a2'.w = (At(buf, 3) >= 128)
                  /\ a2'.s = ((At(buf, 3) \div 64) % 2 = 1) ]_vars

\* C19 as stated: when decodeSimple returns 0 for a PollAndCommand or PollResponse,
\* none of the variant fields has changed from its value before the call.
C19_Original ==
    [][ (call'.op = "decode" /\ ret' = 0 /\ a2.kind # "Alert") =>
            Fields(a2') = Fields(a2) ]_vars

\* A CC1PollAndCommand frame rejected by its checksum alone, decoded into an
\* instance never decoded into with success: its fields are those of the frame.
C19_Witness ==
    /\ Decoded
    /\ ret = 0
    /\ a2.kind = "PollAndCommand"
    /\ At(buf, 0) = 63
    /\ ~ChecksumMatches
    /\ a2.hc1 = 255
    /\ a2.hc2 = 0
    /\ Fields(a2) = <<1, 2, 3, 1>>

\* C20: for a non-null buffer of length >= 8, CC1PollAndCommand::decodeSimple
\* returns 8 exactly when byte 0 is '?', byte 5 is 1, byte 3 is in [1,101], bits 5..2
\* and bits 7..6 of byte 4 are each non-zero and byte 7 is the checksum of bytes
\* 0..6; it then gives rp = byte 3 - 1 and lc, lt, lf = bits 1..0, 5..2, 7..6 of
\* byte 4.
C20_PollAndCommandAccept ==
    (Decoded /\ ~call.null /\ call.buflen >= 8 /\ a2.kind = "PollAndCommand") =>
        LET accept == /\ At(buf, 0) = 63
                      /\ At(buf, 5) = 1
                      /\ At(buf, 3) \in 1..101
                      /\ (At(buf, 4) \div 4) % 16 # 0
                      /\ At(buf, 4) \div 64 # 0
                      /\ At(buf, 7) = computeSimpleCRC(Frame7, 7)
        IN  /\ (ret = 8) <=> accept
            /\ ret \in {0, 8}
            /\ accept =>
                  /\ getRP(a2) = At(buf, 3) - 1
                  /\ getLC(a2) = At(buf, 4) % 4
                  /\ getLT(a2) = (At(buf, 4) \div 4) % 16
                  /\ getLF(a2) = At(buf, 4) \div 64

\* The frame with the largest accepted byte 3 and all light bits set.
C20_Witness ==
    /\ Decoded
    /\ call.buflen >= 8
    /\ a2.kind = "PollAndCommand"
    /\ ret = 8
    /\ At(buf, 3) = 101
    /\ At(buf, 4) = 255
    /\ At(buf, 6) = 3
    /\ <<getRP(a2), getLC(a2), getLT(a2), getLF(a2)>> = <<100, 3, 15, 3>>

\* C21: for a non-null buffer of length >= 8, CC1PollResponse::decodeSimple returns 8
\* exactly when byte 0 is '*', the low 6 bits of byte 3 are in [1,51], bytes 4 and 5
\* are in [1,200], bits 6..1 of byte 6 are neither 0 nor 0x3F and byte 7 is the
\* checksum of bytes 0..6; it then gives rh = (byte 3 AND 0x3F) - 1, w and s = bits 7
\* and 6 of byte 3, tp = byte 4 - 1, tr = byte 5 - 1, al = bits 6..1 and sy = bit 7
\* of byte 6.
C21_PollResponseAccept ==
    (Decoded /\ ~call.null /\ call.buflen >= 8 /\ a2.kind = "PollResponse") =>
        LET al6 == (At(buf, 6) \div 2) % 64
            accept == /\ At(buf, 0) = 42
                      /\ At(buf, 3) % 64 \in 1..51
                      /\ At(buf, 4) \in 1..200
                      /\ At(buf, 5) \in 1..200
                      /\ al6 # 0
                      /\ al6 # 63
                      /\ At(buf, 7) = computeSimpleCRC(Frame7, 7)
        IN  /\ (ret = 8) <=> accept
            /\ ret \in {0, 8}
            /\ accept =>
                  /\ getRH(a2) = (At(buf, 3) % 64) - 1
                  /\ getW(a2) = (At(buf, 3) \div 128 = 1)
                  /\ getS(a2) = ((At(buf, 3) \div 64) % 2 = 1)
                  /\ getTP(a2) = At(buf, 4) - 1
                  /\ getTR(a2) = At(buf, 5) - 1
                  /\ getAL(a2) = al6
                  /\ getSY(a2) = (At(buf, 6) \div 128 = 1)

\* The frame with the largest accepted rh, tp, tr and al, and sy set.
C21_Witness ==
    /\ Decoded
    /\ call.buflen >= 8
    /\ a2.kind = "PollResponse"
    /\ ret = 8
    /\ At(buf, 3) = 51
    /\ At(buf, 4) = 200
    /\ At(buf, 5) = 200
    /\ At(buf, 6) = 124
    /\ <<getRH(a2), getTP(a2), getTR(a2), getAL(a2)>> = <<50, 199, 199, 62>>
    /\ ~getSY(a2)

\* Number of bits set in byte x.
PopCount(x) ==
    (x % 2) + ((x \div 2) % 2) + ((x \div 4) % 2) + ((x \div 8) % 2)
    + ((x \div 16) % 2) + ((x \div 32) % 2) + ((x \div 64) % 2) + ((x \div 128) % 2)

\* Number of bits in which the first 8 bytes of the buffer differ from frame f.
BitsFrom(f) ==
    LET d(i) == PopCount(BitXor(At(buf, i), At(f, i)))
    IN  d(0) + d(1) + d(2) + d(3) + d(4) + d(5) + d(6) + d(7)

\* C22: decoding the valid frame of a valid made instance with any one, two or
\* three distinct bits of its 64 inverted returns 0.
C22_ThreeBits ==
    ( /\ Decoded
      /\ isValid(a1)
      /\ FieldsInRange(a1)
      /\ BitsFrom(FrameOfA1) \in 1..3 )
    => ret = 0

\* Three bits of the house code and checksum inverted in a CC1PollResponse frame:
\* no range check applies, only the checksum can tell.
C22_Witness ==
    /\ Decoded
    /\ a1.kind = "PollResponse"
    /\ BitsFrom(FrameOfA1) = 3
    /\ At(buf, 1) # a1.hc1
    /\ At(buf, 2) # a1.hc2
    /\ At(buf, 7) # At(FrameOfA1, 7)
    /\ SubSeq(buf, 4, 7) = SubSeq(FrameOfA1, 4, 7)
    /\ ret = 0

(***************************************************************************)
(* Re-encoding of a decoded frame (SpecDecode).                            *)
(***************************************************************************)
\* The step a2.encodeSimple(buf, sizeof(buf), true) taken right after a
\* decodeSimple of the same buffer that returned 8.
ReEncoded ==
    /\ Decoded
    /\ ret = 8
    /\ call'.op = "encode"
    /\ call'.on = "a2"

\* C25 as amended: re-encoding an accepted frame with includeCRC = true rewrites
\* bytes 0..3 as they were, and bytes 4 and 5 of a poll-and-command or
\* poll-response frame as they were; the reserved bytes that decodeSimple does not
\* test come back in canonical form (bytes 4..6 of an alert and byte 6 of a
\* poll-and-command as 1, bit 0 of byte 6 of a poll-response as 0), and byte 7 is
\* the checksum of the rewritten bytes, so the whole frame comes back unchanged
\* exactly when those reserved bytes were canonical.
C25_Canonical ==
    [][ ReEncoded =>
          /\ ret' = 8
          /\ SubSeq(buf', 1, 4) = SubSeq(buf, 1, 4)
          /\ a2.kind = "Alert" => SubSeq(buf', 5, 7) = <<1, 1, 1>>
          /\ a2.kind = "PollAndCommand" =>
                /\ SubSeq(buf', 5, 6) = SubSeq(buf, 5, 6)
                /\ buf'[7] = 1
          /\ a2.kind = "PollResponse" =>
                /\ SubSeq(buf', 5, 6) = SubSeq(buf, 5, 6)
                /\ buf'[7] = buf[7] - (buf[7] % 2)
          /\ buf'[8] = computeSimpleCRC(buf', 7)
          /\ SubSeq(buf', 9, BufCap) = SubSeq(buf, 9, BufCap)
          /\ (buf' = buf) <=> (SubSeq(buf', 5, 7) = SubSeq(buf, 5, 7)) ]_vars

\* C25 as stated: re-encoding any accepted frame writes the 8 bytes decoded.
C25_Original ==
    [][ ReEncoded => SubSeq(buf', 1, 8) = SubSeq(buf, 1, 8) ]_vars

\* The frame re-encoded from a poll-response decoded with success from a frame
\* whose relative humidity byte was 51 | 0x40 and whose byte 6 was odd or even.
C25_Witness ==
    /\ Encoded
    /\ call.on = "a2"
    /\ ret = 8
    /\ a2.kind = "PollResponse"
    /\ isValid(a2)
    /\ a2.rh = 45
    /\ a2.s
    /\ a2.al = 35
    /\ buf[4] = 110
    /\ buf[7] = 70
    /\ ChecksumMatches

\* C26: in every state of a caller that makes an instance, decodes received frames
\* into a default-constructed one and encodes from it, a CC1PollAndCommand or
\* CC1PollResponse for which isValid() is true has every field in its declared
\* range: rp in 0..100, lc in 0..3, lt in 1..15, lf in 1..3, rh in 0..50, tp and tr
\* in 0..199, al in 1..62.
C26_FieldRange ==
    \A o \in {a1, a2} :
        (o.kind \in {"PollAndCommand", "PollResponse"} /\ isValid(o)) => FieldsInRange(o)

\* A poll-and-command decoded with every field at the upper end of its range.
C26_Witness ==
    /\ Decoded
    /\ ret = 8
    /\ isValid(a2)
    /\ a2.kind = "PollAndCommand"
    /\ <<a2.rp, a2.lc, a2.lt, a2.lf>> = <<100, 3, 15, 3>>
    /\ isValid(a1)

\* C27: a decodeSimple that returns 0 leaves getHC1() at 0xFF and getHC2() at the
\* value it had before the call.
C27_OnlyHC1Forced ==
    [][ (call'.op = "decode" /\ ret' = 0) =>
            /\ getHC1(a2') = 255
            /\ getHC2(a2') = getHC2(a2) ]_vars

\* A failed decodeSimple on an instance that an earlier decodeSimple made valid:
\* the second house-code byte is still the one decoded then.
C27_Witness ==
    /\ Decoded
    /\ ret = 0
    /\ getHC1(a2) = 255
    /\ getHC2(a2) = 21
    /\ ~isValid(a2)

(***************************************************************************)
(* Frames offered to another class (SpecCross).                            *)
(***************************************************************************)
\* C28: decodeSimple of one class called on a buffer that holds what encodeSimple
\* of an instance of another class wrote returns 0 and leaves its instance
\* invalid, whatever the house code and the fields encoded.
C28_CrossVariant ==
    (Decoded /\ sent.ok /\ sent.inst.kind # a2.kind) =>
        /\ ret = 0
        /\ ~isValid(a2)

\* The 8-byte frame of a valid poll-and-command whose byte 3 is 1, as the first
\* extension byte of an alert is, refused by the decodeSimple of CC1Alert.
C28_Witness ==
    /\ Decoded
    /\ sent.ok
    /\ sent.crc
    /\ sent.inst = a1
    /\ a1.kind = "PollAndCommand"
    /\ isValid(a1)
    /\ a2.kind = "Alert"
    /\ call.buflen = 8
    /\ ~call.null
    /\ buf[1] = FTp2_CC1PollAndCmd
    /\ buf[4] = 1
    /\ ChecksumMatches
    /\ ret = 0

(***************************************************************************)
(* What encodeSimple writes (Spec).                                        *)
(***************************************************************************)
\* C29: an encodeSimple that returns 0 leaves every byte of the buffer as it was;
\* one called with includeCRC = false leaves byte 7 and every later byte as they
\* were; one called with includeCRC = true leaves byte 8 and every later byte as
\* they were; and no encodeSimple changes the house code or a field of an instance.
C29_EncodeFrame ==
    [][ call'.op = "encode" =>
          /\ ret' = 0 => buf' = buf
          /\ ~call'.includeCRC => SubSeq(buf', 8, BufCap) = SubSeq(buf, 8, BufCap)
          /\ call'.includeCRC => SubSeq(buf', 9, BufCap) = SubSeq(buf, 9, BufCap)
          /\ a1' = a1
          /\ a2' = a2 ]_vars

\* A poll-response encoded without checksum over a buffer that held a frame of
\* the same instance with its checksum: byte 7 still holds that checksum, and
\* the bytes after it still hold the fill of the buffer.
C29_Witness ==
    /\ Encoded
    /\ call.on = "a1"
    /\ a1.kind = "PollResponse"
    /\ ~call.includeCRC
    /\ call.buflen = 7
    /\ ret = 7
    /\ ChecksumMatches
    /\ \A i \in 9..BufCap : buf[i] = 165
    /\ ~sent.crc

(***************************************************************************)
(* Encoding of invalid instances (SpecInvalid).                            *)
(***************************************************************************)
\* The last call was decodeSimple with sane arguments on the 8-byte frame that
\* encodeSimple wrote for an instance with 0xFF in its house code.
DecodedInvalidFrame ==
    /\ Decoded
    /\ sent.ok
    /\ sent.crc
    /\ ~isValid(sent.inst)
    /\ decodeSimpleArgsSane(call.null, call.buflen, TRUE)

\* C30 as amended: encodeSimple does not test the instance: called with a non-null
\* buffer that is long enough on an instance whose house code contains 0xFF, it
\* returns 7 or 8 and the frame holds the house code, 0xFF included.  Decoding
\* the 8-byte frame returns 8 whenever the fields of the encoded instance are in
\* their declared ranges, as they are for every CC1Alert and for every instance a
\* factory returned, and the instance decoded into then holds that house code and
\* isValid() is false for it.
C30_EncodeUnchecked ==
    /\ (Encoded /\ ~isValid(Target)
           /\ encodeSimpleArgsSane(call.null, call.buflen, call.includeCRC)) =>
          /\ ret = IF call.includeCRC THEN 8 ELSE 7
          /\ buf[2] = getHC1(Target)
          /\ buf[3] = getHC2(Target)
          /\ 255 \in {buf[2], buf[3]}
    /\ DecodedInvalidFrame =>
          /\ FieldsInRange(sent.inst) => ret = 8
          /\ ret = 8 => /\ ~isValid(a2)
                         /\ getHC1(a2) = getHC1(sent.inst)
                         /\ getHC2(a2) = getHC2(sent.inst)

\* C30 as stated: decoding the 8-byte frame of any instance whose house code
\* contains 0xFF returns 8.
C30_Original == DecodedInvalidFrame => ret = 8

\* The frame of a poll-response made with house code (10, 0xFF), decoded with
\* return 8 into an instance that is then invalid.
C30_Witness ==
    /\ DecodedInvalidFrame
    /\ ret = 8
    /\ sent.inst = a1
    /\ a1.kind = "PollResponse"
    /\ <<a1.hc1, a1.hc2>> = <<10, 255>>
    /\ <<a2.hc1, a2.hc2>> = <<10, 255>>
    /\ ~isValid(a2)
    /\ buf[3] = 255

(***************************************************************************)
(* Calls executed line by line (SpecLines).                                *)
(***************************************************************************)
\* The step of decodeSimple a line belongs to: 1 force-invalid, 2 argument check,
\* 3 frame-type check, 4 reserved-byte and field checks, 5 checksum check
\* (computeSimpleCRC included), 6 house-code assignment, 7 return(8).
DecodePhase(line) ==
    CASE line \in {77, 141, 226} -> 1
      [] line \in {79, 143, 228} -> 2
      [] line \in {81, 145, 230} -> 3
      [] line \in {83} \cup (147..157) \cup (234..248) -> 4
      [] line \in {85, 159, 250} \cup (38..50) -> 5
      [] line \in {87, 88, 161, 162, 252, 253} -> 6
      [] line \in {91, 165, 256} -> 7

\* The buffer of a thread, in memory m.
View(m, t) == SubSeq(m, t.base + 1, t.base + FrameLen)

\* The first step that fails for the call of decodeSimple of thread t, from the
\* arguments and the buffer it was called with; 0 if none fails.
FirstFailure(t) ==
    LET f == View(t.entry.mem, t)
        kind == t.entry.obj.kind
        type == CASE kind = "Alert" -> 33 [] kind = "PollAndCommand" -> 63
                  [] kind = "PollResponse" -> 42
        fields == CASE kind = "Alert" -> f[4] = 1
                    [] kind = "PollAndCommand" ->
                          /\ f[6] = 1
                          /\ f[4] \in 1..101
                          /\ (f[5] \div 4) % 16 # 0
                          /\ f[5] \div 64 # 0
                    [] kind = "PollResponse" ->
                          /\ f[4] % 64 \in 1..51
                          /\ f[5] \in 1..200
                          /\ f[6] \in 1..200
                          /\ (f[7] \div 2) % 64 \in 1..62
    IN  IF t.null \/ t.buflen < 8 THEN 2
        ELSE IF f[1] # type THEN 3
        ELSE IF ~fields THEN 4
        ELSE IF computeSimpleCRC(f, 8) # f[8] THEN 5
        ELSE 0

\* C23: the lines that a call of decodeSimple has executed run through the steps
\* force-invalid, argument check, frame-type check, reserved-byte and field
\* checks, checksum check, house-code assignment, return(8) in that order, none
\* skipped and none revisited; a house-code assignment has been executed only if
\* every check including the checksum comparison succeeds, and the house code
\* is as forceInvalid left it until then; a call that has returned went through
\* all steps and returned 8 if no check fails, and otherwise stopped in the first
\* step whose check fails and returned 0.
C23_StepOrder ==
    \A id \in {"t1", "t2"} :
        LET t == call[id]
            o == IF id = "t1" THEN a1 ELSE a2
            n == Len(t.trace)
            ph == [k \in 1..n |-> DecodePhase(t.trace[k])]
            assigned == \E k \in 1..n : ph[k] = 6
        IN  t.fn = "decodeSimple" =>
              /\ n > 0 => ph[1] = 1
              /\ \A k \in 1..(n - 1) :
                    /\ ph[k + 1] \in {ph[k], ph[k] + 1}
                    /\ ph[k] \in {1, 2, 3} => ph[k + 1] = ph[k] + 1
              /\ assigned => FirstFailure(t) = 0
              /\ (n > 0 /\ ~assigned) => (o.hc1 = 255 /\ o.hc2 = t.entry.obj.hc2)
              /\ t.pc = 0 =>
                    IF FirstFailure(t) = 0
                    THEN t.ret = 8 /\ [k \in 1..7 |-> \E j \in 1..n : ph[j] = k]
                                         = [k \in 1..7 |-> TRUE]
                    ELSE t.ret = 0 /\ ph[n] = FirstFailure(t)

\* A CC1PollResponse::decodeSimple that has returned 0 from the checksum
\* comparison, after every field check and the whole of computeSimpleCRC, while
\* the other thread is still inside its own call.
C23_Witness ==
    /\ call.op = "lines"
    /\ call.t2.pc = 0
    /\ call.t2.ret = 0
    /\ call.t2.trace[Len(call.t2.trace)] = 250
    /\ Len(call.t2.trace) > 25
    /\ a2.hc1 = 255
    /\ a2.rh = 45
    /\ call.t1.pc \notin {0, Entry(call.t1.fn, a1.kind)}

\* What the call of thread t gives when nothing else runs: return value,
\* instance and buffer, from the instance and the buffer it was called with.
Alone(t) ==
    LET o == t.entry.obj
        b == View(t.entry.mem, t)
    IN  CASE t.fn = "encodeSimple" ->
               LET r == encodeSimple(o, t.null, b, t.buflen, t.includeCRC)
               IN  [ret |-> r.ret, obj |-> o, buf |-> r.buf]
          [] t.fn = "decodeSimple" ->
               LET r == decodeSimple(o, t.null, b, t.buflen)
               IN  [ret |-> r.ret, obj |-> r.obj, buf |-> b]
          [] t.fn = "computeSimpleCRC" ->
               [ret |-> computeSimpleCRC(b, t.buflen), obj |-> o, buf |-> b]

\* Every address a thread has read or written is in its own buffer, and a call
\* that has returned gave what it gives alone.
AsAlone ==
    \A id \in {"t1", "t2"} :
        LET t == call[id]
            o == IF id = "t1" THEN a1 ELSE a2
        IN  /\ t.acc \subseteq (t.base)..(t.base + FrameLen - 1)
            /\ t.pc = 0 => [ret |-> t.ret, obj |-> o, buf |-> View(buf, t)] = Alone(t)

\* A line of one thread leaves the instance and the buffer of the other as
\* they were.
OwnOnly ==
    /\ call'.t1 # call.t1 => (a2' = a2 /\ View(buf', call.t2) = View(buf, call.t2))
    /\ call'.t2 # call.t2 => (a1' = a1 /\ View(buf', call.t1) = View(buf, call.t1))

\* C24: with two calls on different instances and different buffers executed
\* line by line in any interleaving, each call returns the value, and leaves its
\* instance and its buffer in the state, that it gives when run alone; no line of
\* a call reads or writes an address outside its own buffer, or changes the
\* instance or the buffer of the other call.
C24_Interleaving == [](AsAlone) /\ [][OwnOnly]_vars

\* Both calls have returned, an encodeSimple with checksum and a successful
\* decodeSimple, after the decoding thread ran lines while the encoding thread
\* was between its first and its last write.
C24_Witness ==
    /\ call.op = "lines"
    /\ call.t1.pc = 0
    /\ call.t2.pc = 0
    /\ call.t1.fn = "encodeSimple"
    /\ call.t1.ret = 8
    /\ call.t2.ret = 8
    /\ a1.kind = "PollAndCommand"
    /\ isValid(a2)
    /\ View(buf, call.t1) = View(buf, call.t2)
    /\ call.t1.acc = 0..7
    /\ call.t2.acc = {8, 9, 10, 11, 12, 13, 14, 15}
====
